---- MODULE Spec2Model ----
(***************************************************************************)
(* Model of rust-gguf-tools: the GGUF container writer and reader          *)
(* (crates/gguf-core), the Q4_0 / Q5_1 block encoders (quantize-rs), the   *)
(* block decoders and the F32 decoder (crates/gguf-core/src/decoder.rs)    *)
(* and the validator (crates/gguf-validate).                               *)
(*                                                                         *)
(* Conventions.                                                            *)
(*  - A file, a payload and a string are sequences of bytes (0..255).      *)
(*    File positions are 0-based as in the code; sequences are 1-based.    *)
(*  - A fixed-width number that travels through the file is carried as     *)
(*    its little-endian base-256 numeral (LE(n, w)), because u64 values    *)
(*    exceed the integers of the model checker; NumLE turns a numeral      *)
(*    back into an integer where it fits.                                  *)
(*  - An f32 / f64 is its IEEE-754 bit pattern, as little-endian bytes.    *)
(***************************************************************************)
EXTENDS Integers, Sequences, FiniteSets, TLC

VARIABLES
    \* ---- write_gguf_file ----
    metadata,          \* the BTreeMap<String, GGUFValue> handed to the writer
    tensors,           \* the &[GGUFTensor] handed to the writer
    file,              \* bytes of the file on disk
    wpos,              \* the writer's stream position
    pc,                \* the writer's position in write_gguf_file
    widx,              \* loop index of the writer's current loop (1-based)
    offset_positions,  \* writer.rs: offset_positions
    data_offsets,      \* data_offset of each payload written so far
    kind_positions,    \* position of each kind byte the writer emitted
    dir_end,           \* position just after the last tensor header
    corrupted,         \* whether the file was altered after it was written
    \* ---- read_gguf_file ----
    rstatus,           \* the reader's position / result
    rpos,              \* the BufReader's stream position
    tensor_count,      \* header field, as numeral
    metadata_count,    \* header field, as numeral
    ridx,              \* number of loop iterations done in the current loop
    rmeta,             \* the metadata map being built
    tensor_headers,    \* reader.rs: tensor_headers
    rtensors,          \* reader.rs: tensors
    rdiag,             \* reader.rs: positions at which a skip diagnostic was printed
    \* ---- block encoders and decoders ----
    qin,               \* the floats handed to the encoder
    qfmt,              \* the selected format
    qout,              \* the encoder's output, the payload handed to the decoder
    dst,               \* position / result of the encode-decode run
    dN,                \* decoder: expected_len
    dcur,              \* decoder: cursor.position()
    decoded,           \* decoder: decoded
    dblocks,           \* positions at which the decoder read a block header
    \* ---- gguf-validate ----
    vin,               \* what read_gguf_file returned to the validator
    vpc,               \* the validator's position in main
    vidx,              \* index of the tensor the validator's loop is at
    errors,            \* gguf-validate main.rs: errors
    vlog,              \* per tensor: the decoder's result, or "skipped"
    vexit,             \* exit status of the process, -1 while it runs
    \* ---- quantize-rs main ----
    zformat,           \* cli.format
    zin,               \* what read_gguf_file returned to the quantizer
    zpc,               \* the quantizer's position in main
    zidx,              \* index of the tensor the map closure is at
    quantized,         \* quantize-rs main.rs: quantized
    zexit,             \* exit status of the process, -1 while it runs
    \* ---- the build ----
    overflow_checks,   \* whether the binary was built with overflow checks
    \* ---- packing and unpacking the levels of one block ----
    pfmt,              \* "Q4_0" or "Q5_1"
    plevels,           \* the levels of the block, one per element
    ppacked,           \* main.rs: the bytes pushed for the levels (packed)
    punpacked,         \* decoder.rs: the levels read back from the bytes
    ppc,               \* "levels", "packed" or "unpacked"
    \* ---- gguf-writer: load_tensors_from_safetensors ----
    sfile,             \* main.rs: st, the deserialized safetensors file, or its error
    spc,               \* position in load_tensors_from_safetensors
    sidx,              \* index of the tensor the loop is at
    sout,              \* main.rs: out
    all_f32            \* main.rs: all_f32

vars == <<metadata, tensors, file, wpos, pc, widx, offset_positions,
          data_offsets, kind_positions, dir_end, corrupted,
          rstatus, rpos, tensor_count, metadata_count, ridx, rmeta,
          tensor_headers, rtensors, rdiag,
          qin, qfmt, qout, dst, dN, dcur, decoded, dblocks,
          vin, vpc, vidx, errors, vlog, vexit,
          zformat, zin, zpc, zidx, quantized, zexit, overflow_checks,
          pfmt, plevels, ppacked, punpacked, ppc,
          sfile, spc, sidx, sout, all_f32>>

wvars == <<metadata, tensors, file, wpos, pc, widx, offset_positions,
           data_offsets, kind_positions, dir_end>>

rvars == <<rstatus, rpos, tensor_count, metadata_count, ridx, rmeta,
           tensor_headers, rtensors, rdiag>>

cvars == <<wvars, corrupted, rvars>>

qvars == <<qin, qfmt, qout, dst, dN, dcur, decoded, dblocks>>

vvars == <<vin, vpc, vidx, errors, vlog, vexit>>

zvars == <<zformat, zin, zpc, zidx, quantized, zexit>>

bvars == <<overflow_checks>>

pvars == <<pfmt, plevels, ppacked, punpacked, ppc>>

svars == <<sfile, spc, sidx, sout, all_f32>>

-----------------------------------------------------------------------------
(* Bounds of the model *)

MaxMeta == 2
MaxTensors == 2
MaxN == 65
MaxVTensors == 2
MaxQTensors == 2
MaxSTensors == 2
MaxRawTensors == 2

-----------------------------------------------------------------------------
(* Bytes and little-endian numerals *)

Byte == 0..255

RECURSIVE LE(_, _)
\* byteorder::WriteBytesExt::write_uN / write_iN::<LittleEndian>: the w-byte
\* two's complement numeral of n, least significant byte first.
LE(n, w) == IF w = 0 THEN <<>> ELSE <<n % 256>> \o LE(n \div 256, w - 1)

\* Whether a numeral denotes a value below 2^24 (an integer of the model).
FitsInt(bs) == \A i \in 1..Len(bs) : i > 3 => bs[i] = 0

RECURSIVE NumLE(_)
\* byteorder::ReadBytesExt::read_uN::<LittleEndian>, where FitsInt holds.
NumLE(bs) == IF bs = <<>> THEN 0 ELSE bs[1] + 256 * NumLE(Tail(bs))

\* The n bytes of f at position pos.
Bytes(f, pos, n) == SubSeq(f, pos + 1, pos + n)

\* Read::read_exact succeeds iff n more bytes are there.
Avail(f, pos, n) == pos + n <= Len(f)

\* Write bs at position pos of f (overwriting, extending at the end).
WriteAt(f, pos, bs) ==
    [i \in 1..(IF pos + Len(bs) > Len(f) THEN pos + Len(bs) ELSE Len(f)) |->
        IF i > pos /\ i <= pos + Len(bs) THEN bs[i - pos] ELSE f[i]]

RECURSIVE Pow2(_)
Pow2(k) == IF k = 0 THEN 1 ELSE 2 * Pow2(k - 1)

RECURSIVE Log2Floor(_)
Log2Floor(v) == IF v < 2 THEN 0 ELSE 1 + Log2Floor(v \div 2)

\* IEEE-754 single bits, little-endian, of the integer v in 0..255 (v as f32).
F32OfU8(v) ==
    IF v = 0 THEN <<0, 0, 0, 0>>
    ELSE LET e == Log2Floor(v)
             mant == (v - Pow2(e)) * Pow2(23 - e)
         IN  LE((127 + e) * Pow2(23) + mant, 4)

-----------------------------------------------------------------------------
(* types.rs *)

Kinds == {"String", "Bool", "U8", "I8", "U16", "I16", "U32", "I32",
          "U64", "I64", "F32", "F64", "StringArray", "Binary"}

\* GGUFValueType::from_u8
FromU8(n) ==
    CASE n = 1 -> "String"
      [] n = 2 -> "Array"
      [] n = 3 -> "U8"
      [] n = 4 -> "I8"
      [] n = 5 -> "U16"
      [] n = 6 -> "I16"
      [] n = 7 -> "U32"
      [] n = 8 -> "I32"
      [] n = 9 -> "U64"
      [] n = 10 -> "Bool"
      [] n = 11 -> "I64"
      [] n = 12 -> "F64"
      [] n = 13 -> "F32"
      [] n = 14 -> "StringArray"
      [] n = 15 -> "Binary"
      [] OTHER -> "Unknown"

\* GGUFValueType::to_u8 (Unknown(n) carries its own code)
ToU8(k) ==
    CASE k = "String" -> 1
      [] k = "Array" -> 2
      [] k = "U8" -> 3
      [] k = "I8" -> 4
      [] k = "U16" -> 5
      [] k = "I16" -> 6
      [] k = "U32" -> 7
      [] k = "I32" -> 8
      [] k = "U64" -> 9
      [] k = "Bool" -> 10
      [] k = "I64" -> 11
      [] k = "F64" -> 12
      [] k = "F32" -> 13
      [] k = "StringArray" -> 14
      [] k = "Binary" -> 15

\* A GGUFValue: [kind, val]. Numbers are numerals of the kind's width.
Val(k, v) == [kind |-> k, val |-> v]

\* GGUFTensor: type_id is a u32 numeral, dims are u64 numerals, offset is a
\* u64 numeral, values are the raw payload bytes.
Tensor(n, t, d, o, v) ==
    [name |-> n, type_id |-> t, dims |-> d, offset |-> o, values |-> v]

-----------------------------------------------------------------------------
(* Inputs of the container codec *)

\* Keys "a" and "bc".
Keys == {<<97>>, <<98, 99>>}

\* One value of every supported kind.
MetaValues ==
    { Val("String", <<116>>),
      Val("Bool", TRUE),
      Val("U8", LE(7, 1)),
      Val("I8", LE(-1, 1)),
      Val("U16", LE(258, 2)),
      Val("I16", LE(-2, 2)),
      Val("U32", LE(5, 4)),
      Val("I32", LE(-3, 4)),
      Val("U64", LE(3, 8)),
      Val("I64", LE(-4, 8)),
      Val("F32", <<0, 0, 128, 63>>),
      Val("F64", <<0, 0, 0, 0, 0, 0, 240, 63>>),
      Val("StringArray", << <<120>>, <<>> >>),
      Val("Binary", <<1, 2>>) }

MetadataMaps ==
    UNION { [S -> MetaValues] : S \in {T \in SUBSET Keys : Cardinality(T) <= MaxMeta} }

\* "w": F32 [1] holding 1.0; "uv": Q4_0 with no dims and no payload;
\* "x": type 7, dims [2, 1], two payload bytes.
TensorPool ==
    { Tensor(<<119>>, LE(0, 4), <<LE(1, 8)>>, LE(0, 8), <<0, 0, 128, 63>>),
      Tensor(<<117, 118>>, LE(100, 4), <<>>, LE(0, 8), <<>>),
      Tensor(<<120>>, LE(7, 4), <<LE(2, 8), LE(1, 8)>>, LE(0, 8), <<3, 200>>) }

TensorLists == UNION { [1..n -> TensorPool] : n \in 0..MaxTensors }

-----------------------------------------------------------------------------
(* writer.rs: write_gguf_file *)

Magic == <<71, 71, 85, 70>>

RECURSIVE LexLess(_, _)
\* Ord for String: byte-wise lexicographic.
LexLess(a, b) ==
    IF b = <<>> THEN FALSE
    ELSE IF a = <<>> THEN TRUE
    ELSE IF a[1] # b[1] THEN a[1] < b[1]
    ELSE LexLess(Tail(a), Tail(b))

RECURSIVE SortedKeys(_)
\* Iteration order of a BTreeMap's keys.
SortedKeys(S) ==
    IF S = {} THEN <<>>
    ELSE LET k == CHOOSE x \in S : \A y \in S \ {x} : LexLess(x, y)
         IN  <<k>> \o SortedKeys(S \ {k})

RECURSIVE Concat(_)
Concat(ss) == IF ss = <<>> THEN <<>> ELSE Head(ss) \o Concat(Tail(ss))

\* The kind byte the writer emits for a value (writer.rs, match value).
WriterKindCode(v) ==
    CASE v.kind = "String" -> 1
      [] v.kind = "Bool" -> 10
      [] v.kind = "U64" -> 9
      [] v.kind = "I64" -> 11
      [] v.kind = "F64" -> 12
      [] v.kind = "F32" -> 14
      [] v.kind = "U8" -> 2
      [] v.kind = "I8" -> 3
      [] v.kind = "U16" -> 4
      [] v.kind = "I16" -> 5
      [] v.kind = "U32" -> 6
      [] v.kind = "I32" -> 7
      [] v.kind = "StringArray" -> 13
      [] v.kind = "Binary" -> 15
      [] v.kind = "Unknown" -> v.val

\* A length-prefixed string: u64 length, bytes.
LenPrefixed(s) == LE(Len(s), 8) \o s

\* The bytes the writer emits after the kind byte.
EncodeValue(v) ==
    CASE v.kind \in {"String", "Binary"} -> LenPrefixed(v.val)
      [] v.kind = "Bool" -> <<IF v.val THEN 1 ELSE 0>>
      [] v.kind = "StringArray" ->
            LE(Len(v.val), 8) \o Concat([i \in 1..Len(v.val) |-> LenPrefixed(v.val[i])])
      [] v.kind = "Unknown" -> <<>>
      [] OTHER -> v.val

\* One metadata entry: key, kind byte, value.
EncodeEntry(key, v) == LenPrefixed(key) \o <<WriterKindCode(v)>> \o EncodeValue(v)

\* A tensor header up to, not including, the offset field.
EncodeTensorHeader(t) ==
    LenPrefixed(t.name) \o t.type_id \o LE(Len(t.dims), 4) \o Concat(t.dims)

\* The bytes the data loop emits for a tensor: write_f32 of every element of
\* tensor.values (a Vec<u8>), four bytes per element.
PayloadBytes(t) == Concat([j \in 1..Len(t.values) |-> F32OfU8(t.values[j])])

\* A variant in which the seek back to return_pos is missing, the stream stays after the
\* patched field.
AfterBackpatch_NoSeekBack(return_pos, patch_pos) == patch_pos + 8

\* The stream position after the backpatch: seek(SeekFrom::Start(return_pos)).
AfterBackpatch(return_pos, patch_pos) == return_pos

\* The phase that follows the metadata loop / the header write.
PhaseAfterMeta == IF Len(tensors) > 0 THEN "w_theaders" ELSE "written"

WriteHeader ==
    /\ pc = "w_start"
    /\ file' = Magic \o LE(2, 4) \o LE(Len(tensors), 8)
                     \o LE(Cardinality(DOMAIN metadata), 8)
    /\ wpos' = Len(file')
    /\ widx' = 1
    /\ pc' = IF DOMAIN metadata # {} THEN "w_meta" ELSE PhaseAfterMeta
    /\ dir_end' = IF Len(tensors) = 0 /\ DOMAIN metadata = {} THEN wpos' ELSE dir_end
    /\ UNCHANGED <<metadata, tensors, offset_positions, data_offsets,
                   kind_positions, corrupted>>
    /\ UNCHANGED <<rvars, qvars, vvars, zvars, bvars, pvars, svars>>

WriteMetaEntry ==
    /\ pc = "w_meta"
    /\ LET keys == SortedKeys(DOMAIN metadata)
           key == keys[widx]
           bs == EncodeEntry(key, metadata[key])
       IN  /\ file' = WriteAt(file, wpos, bs)
           /\ wpos' = wpos + Len(bs)
           /\ kind_positions' = Append(kind_positions, wpos + 8 + Len(key))
           /\ IF widx = Len(keys)
              THEN /\ widx' = 1
                   /\ pc' = PhaseAfterMeta
                   /\ dir_end' = IF Len(tensors) = 0 THEN wpos' ELSE dir_end
              ELSE /\ widx' = widx + 1
                   /\ UNCHANGED <<pc, dir_end>>
    /\ UNCHANGED <<metadata, tensors, offset_positions, data_offsets, corrupted>>
    /\ UNCHANGED <<rvars, qvars, vvars, zvars, bvars, pvars, svars>>

WriteTensorHeader ==
    /\ pc = "w_theaders"
    /\ LET bs == EncodeTensorHeader(tensors[widx])
       IN  /\ offset_positions' = Append(offset_positions, wpos + Len(bs))
           /\ file' = WriteAt(file, wpos, bs \o LE(0, 8))
           /\ wpos' = wpos + Len(bs) + 8
    /\ IF widx = Len(tensors)
       THEN /\ widx' = 1
            /\ pc' = "w_data"
            /\ dir_end' = wpos'
       ELSE /\ widx' = widx + 1
            /\ UNCHANGED <<pc, dir_end>>
    /\ UNCHANGED <<metadata, tensors, data_offsets, kind_positions, corrupted>>
    /\ UNCHANGED <<rvars, qvars, vvars, zvars, bvars, pvars, svars>>

WriteTensorData ==
    /\ pc = "w_data"
    /\ LET data_offset == wpos
           bs == PayloadBytes(tensors[widx])
           return_pos == wpos + Len(bs)
           patch_pos == offset_positions[widx]
       IN  /\ file' = WriteAt(WriteAt(file, wpos, bs), patch_pos, LE(data_offset, 8))
           /\ wpos' = AfterBackpatch(return_pos, patch_pos)
           /\ data_offsets' = Append(data_offsets, data_offset)
    /\ IF widx = Len(tensors)
       THEN widx' = 1 /\ pc' = "written"
       ELSE widx' = widx + 1 /\ UNCHANGED pc
    /\ UNCHANGED <<metadata, tensors, offset_positions, kind_positions,
                   dir_end, corrupted>>
    /\ UNCHANGED <<rvars, qvars, vvars, zvars, bvars, pvars, svars>>

-----------------------------------------------------------------------------
(* reader.rs: read_gguf_file *)

\* Result of a read helper: out is "ok", "eof" (read_exact met the end of the
\* file) or "alloc" (a length that does not fit the model's integers, i.e. at
\* least 2^24: the buffer is allocated before the read, so the call ends in
\* a capacity-overflow panic, an allocation abort or, if the allocation is
\* granted, the end-of-file error).
Res(o, v, p) == [out |-> o, val |-> v, pos |-> p]

\* The ? operator: a failed read is returned as it is, a good one goes on.
Try(r, Then(_)) == IF r.out # "ok" THEN r ELSE Then(r)

\* read_uN / read_iN / read_fN: the numeral of n bytes.
RdNum(f, pos, n) ==
    IF Avail(f, pos, n) THEN Res("ok", Bytes(f, pos, n), pos + n)
    ELSE Res("eof", <<>>, pos)

\* vec![0u8; len as usize] and read_exact, for the length numeral l.
RdExact(f, pos, l) ==
    IF ~FitsInt(l) THEN Res("alloc", <<>>, pos)
    ELSE IF ~Avail(f, pos, NumLE(l)) THEN Res("eof", <<>>, pos)
    ELSE Res("ok", Bytes(f, pos, NumLE(l)), pos + NumLE(l))

\* u64 length, vec![0u8; len], read_exact.
RdBytes(f, pos) == Try(RdNum(f, pos, 8), LAMBDA l : RdExact(f, l.pos, l.val))

IsCont(b, lo, hi) == b >= lo /\ b <= hi

\* Bounds of the second byte of a multi-byte UTF-8 sequence with lead byte b.
SecondLo(b) == IF b = 224 THEN 160 ELSE IF b = 240 THEN 144 ELSE 128
SecondHi(b) == IF b = 237 THEN 159 ELSE IF b = 244 THEN 143 ELSE 191

Replacement == <<239, 191, 189>>

RECURSIVE Utf8Lossy(_)
\* String::from_utf8_lossy(..).to_string(): every maximal invalid part
\* becomes U+FFFD, valid sequences are kept.
Utf8Lossy(bs) ==
    IF bs = <<>> THEN <<>>
    ELSE LET b == bs[1]
             n == Len(bs)
             need == IF b < 128 THEN 1
                     ELSE IF b >= 194 /\ b <= 223 THEN 2
                     ELSE IF b >= 224 /\ b <= 239 THEN 3
                     ELSE IF b >= 240 /\ b <= 244 THEN 4
                     ELSE 0
             ok2 == n >= 2 /\ IsCont(bs[2], SecondLo(b), SecondHi(b))
             ok3 == ok2 /\ n >= 3 /\ IsCont(bs[3], 128, 191)
             ok4 == ok3 /\ n >= 4 /\ IsCont(bs[4], 128, 191)
             valid == \/ need = 1
                      \/ need = 2 /\ ok2
                      \/ need = 3 /\ ok3
                      \/ need = 4 /\ ok4
             bad == IF need <= 1 \/ ~ok2 THEN 1
                    ELSE IF need = 2 \/ ~ok3 THEN 2
                    ELSE 3
         IN  IF valid THEN SubSeq(bs, 1, need) \o Utf8Lossy(SubSeq(bs, need + 1, n))
             ELSE Replacement \o Utf8Lossy(SubSeq(bs, bad + 1, n))

\* A length-prefixed string, lossily decoded.
RdString(f, pos) ==
    Try(RdBytes(f, pos), LAMBDA r : Res("ok", Utf8Lossy(r.val), r.pos))

RECURSIVE RdStrings(_, _, _, _)
\* The loop of the StringArray arm: count strings, pushed onto items.
RdStrings(f, pos, count, items) ==
    IF count = 0 THEN Res("ok", items, pos)
    ELSE Try(RdString(f, pos),
             LAMBDA r : RdStrings(f, r.pos, count - 1, Append(items, r.val)))

\* Width in bytes of a fixed-width kind.
WidthOf(k) ==
    CASE k \in {"U8", "I8"} -> 1
      [] k \in {"U16", "I16"} -> 2
      [] k \in {"U32", "I32", "F32"} -> 4
      [] k \in {"U64", "I64", "F64"} -> 8

\* Some(value) of a kind, from a good read.
SomeVal(k, v, p) == Res("ok", <<Val(k, v)>>, p)

\* Vec::with_capacity(count) and the loop, for the count numeral c.
RdStringArray(f, pos, c) ==
    IF ~FitsInt(c) THEN Res("alloc", <<>>, pos)
    ELSE Try(RdStrings(f, pos, NumLE(c), <<>>),
             LAMBDA r : SomeVal("StringArray", r.val, r.pos))

\* The match on GGUFValueType::from_u8(type_byte): val is <<v>> for Some(v)
\* and <<>> for None.
ParseValue(k, f, pos) ==
    CASE k = "String" ->
            Try(RdString(f, pos), LAMBDA r : SomeVal("String", r.val, r.pos))
      [] k = "Bool" ->
            Try(RdNum(f, pos, 1), LAMBDA r : SomeVal("Bool", r.val[1] # 0, r.pos))
      [] k = "StringArray" ->
            Try(RdNum(f, pos, 8), LAMBDA c : RdStringArray(f, c.pos, c.val))
      [] k = "Binary" ->
            Try(RdBytes(f, pos), LAMBDA r : SomeVal("Binary", r.val, r.pos))
      [] k \in {"Array", "Unknown"} -> Res("ok", <<>>, pos)
      [] OTHER ->
            Try(RdNum(f, pos, WidthOf(k)), LAMBDA r : SomeVal(k, r.val, r.pos))

\* One iteration of the metadata loop: val is <<key, parsed>>.
ParseEntry(f, pos) ==
    Try(RdString(f, pos), LAMBDA key :
    Try(RdNum(f, key.pos, 1), LAMBDA tb :
    Try(ParseValue(FromU8(tb.val[1]), f, tb.pos), LAMBDA v :
    Res("ok", <<key.val, v.val>>, v.pos))))

RECURSIVE RdDims(_, _, _, _)
RdDims(f, pos, count, dims) ==
    IF count = 0 THEN Res("ok", dims, pos)
    ELSE Try(RdNum(f, pos, 8),
             LAMBDA r : RdDims(f, r.pos, count - 1, Append(dims, r.val)))

\* Vec::with_capacity(ndim) and the loop, for the ndim numeral nd.
RdDimList(f, pos, nd) ==
    IF ~FitsInt(nd) THEN Res("alloc", <<>>, pos)
    ELSE RdDims(f, pos, NumLE(nd), <<>>)

\* One iteration of the tensor header loop: val is (name, type_id, dims, offset).
ParseTensorHeader(f, pos) ==
    Try(RdString(f, pos), LAMBDA name :
    Try(RdNum(f, name.pos, 4), LAMBDA ty :
    Try(RdNum(f, ty.pos, 4), LAMBDA nd :
    Try(RdDimList(f, nd.pos, nd.val), LAMBDA ds :
    Try(RdNum(f, ds.pos, 8), LAMBDA off :
    Res("ok", <<name.val, ty.val, ds.val, off.val>>, off.pos))))))

\* Whether a loop over 0..count has done all its iterations after n of them.
LoopDone(n, count) == FitsInt(count) /\ NumLE(count) <= n

\* How a failed read ends read_gguf_file.
Outcomes(out) == IF out = "alloc" THEN {"Err", "Panic"} ELSE {"Err"}

RECURSIVE NumLess(_, _)
\* a < b for numerals of one width (u64 comparison).
NumLess(a, b) ==
    IF a = <<>> THEN FALSE
    ELSE LET n == Len(a)
         IN  IF a[n] # b[n] THEN a[n] < b[n]
             ELSE NumLess(SubSeq(a, 1, n - 1), SubSeq(b, 1, n - 1))

RECURSIVE NumSub(_, _, _)
\* a - b - borrow for numerals of one width with a >= b (u64 subtraction).
NumSub(a, b, borrow) ==
    IF a = <<>> THEN <<>>
    ELSE LET d == a[1] - b[1] - borrow
         IN  <<d % 256>> \o NumSub(Tail(a), Tail(b), IF d < 0 THEN 1 ELSE 0)

RECURSIVE NumScale(_, _, _)
\* a * d + carry for a numeral a and a byte d; one byte longer than a.
NumScale(a, d, carry) ==
    IF a = <<>> THEN <<carry>>
    ELSE LET p == a[1] * d + carry
         IN  <<p % 256>> \o NumScale(Tail(a), d, p \div 256)

RECURSIVE NumAdd(_, _, _)
\* a + b + carry for numerals of one width, the carry out dropped.
NumAdd(a, b, carry) ==
    IF a = <<>> THEN <<>>
    ELSE LET t == a[1] + b[1] + carry
         IN  <<t % 256>> \o NumAdd(Tail(a), Tail(b), t \div 256)

RECURSIVE NumMul(_, _)
\* The full product of two numerals, Len(a) + Len(b) bytes.
NumMul(a, b) ==
    IF b = <<>> THEN [i \in 1..Len(a) |-> 0]
    ELSE NumAdd(NumScale(a, b[1], 0) \o [i \in 1..(Len(b) - 1) |-> 0],
                <<0>> \o NumMul(a, Tail(b)), 0)

\* a * b on u64: the low 64 bits, and whether the product overflowed.
U64Mul(a, b) ==
    [num |-> SubSeq(NumMul(a, b), 1, 8),
     overflow |-> SubSeq(NumMul(a, b), 9, 16) # LE(0, 8)]

\* The file the reader opens is any file: the writer's, or one whose first
\* bytes differ.
CorruptPositions == 0..3
CorruptBytes == {0, 70}

Corrupt ==
    /\ pc = "written"
    /\ rstatus = "start"
    /\ ~corrupted
    /\ \E p \in CorruptPositions, b \in CorruptBytes :
          /\ p < Len(file)
          /\ file[p + 1] # b
          /\ file' = [file EXCEPT ![p + 1] = b]
    /\ corrupted' = TRUE
    /\ UNCHANGED <<metadata, tensors, wpos, pc, widx, offset_positions,
                   data_offsets, kind_positions, dir_end>>
    /\ UNCHANGED <<rvars, qvars, vvars, zvars, bvars, pvars, svars>>

\* A variant that compares only the first three bytes.
MagicOk_Prefix(magic) == SubSeq(magic, 1, 3) = SubSeq(Magic, 1, 3)

\* The magic check (reader.rs 15-19).
MagicOk(magic) == magic = Magic

ReadMagic ==
    /\ pc = "written"
    /\ rstatus = "start"
    /\ LET r == RdNum(file, 0, 4)
       IN  IF r.out # "ok"
           THEN rstatus' = "Err" /\ UNCHANGED rpos
           ELSE /\ rpos' = r.pos
                /\ rstatus' = IF MagicOk(r.val) THEN "counts" ELSE "BadMagic"
    /\ UNCHANGED <<tensor_count, metadata_count, ridx, rmeta, tensor_headers, rtensors>>
    /\ UNCHANGED rdiag
    /\ UNCHANGED <<wvars, corrupted, qvars, vvars, zvars, bvars, pvars, svars>>

\* The phase the reader enters once the metadata loop is over.
PhaseAfterRMeta(tc) == IF LoopDone(0, tc) THEN "Ok" ELSE "theaders"

ReadCounts ==
    /\ rstatus = "counts"
    /\ LET v == RdNum(file, rpos, 4)
           tc == RdNum(file, v.pos, 8)
           mc == RdNum(file, tc.pos, 8)
       IN  IF v.out # "ok" \/ tc.out # "ok" \/ mc.out # "ok"
           THEN rstatus' = "Err" /\ UNCHANGED <<rpos, tensor_count, metadata_count>>
           ELSE /\ rpos' = mc.pos
                /\ tensor_count' = tc.val
                /\ metadata_count' = mc.val
                /\ rstatus' = IF LoopDone(0, mc.val) THEN PhaseAfterRMeta(tc.val)
                              ELSE "meta"
    /\ ridx' = 0
    /\ UNCHANGED <<rmeta, tensor_headers, rtensors>>
    /\ UNCHANGED rdiag
    /\ UNCHANGED <<wvars, corrupted, qvars, vvars, zvars, bvars, pvars, svars>>

\* metadata.insert(key, val)
Insert(m, key, val) ==
    [k \in DOMAIN m \cup {key} |-> IF k = key THEN val ELSE m[k]]

ReadMetaEntry ==
    /\ rstatus = "meta"
    /\ LET r == ParseEntry(file, rpos)
       IN  IF r.out # "ok"
           THEN /\ rstatus' \in Outcomes(r.out)
                /\ UNCHANGED <<rpos, ridx, rmeta, rdiag>>
           ELSE /\ rpos' = r.pos
                /\ rmeta' = IF r.val[2] # <<>>
                            THEN Insert(rmeta, r.val[1], r.val[2][1])
                            ELSE rmeta
                /\ rdiag' = IF r.val[2] # <<>> THEN rdiag ELSE Append(rdiag, r.pos)
                /\ IF LoopDone(ridx + 1, metadata_count)
                   THEN ridx' = 0 /\ rstatus' = PhaseAfterRMeta(tensor_count)
                   ELSE ridx' = ridx + 1 /\ UNCHANGED rstatus
    /\ UNCHANGED <<tensor_count, metadata_count, tensor_headers, rtensors>>
    /\ UNCHANGED <<wvars, corrupted, qvars, vvars, zvars, bvars, pvars, svars>>

ReadTensorHeader ==
    /\ rstatus = "theaders"
    /\ LET r == ParseTensorHeader(file, rpos)
       IN  IF r.out # "ok"
           THEN /\ rstatus' \in Outcomes(r.out)
                /\ UNCHANGED <<rpos, ridx, tensor_headers>>
           ELSE /\ rpos' = r.pos
                /\ tensor_headers' = Append(tensor_headers, r.val)
                /\ IF LoopDone(ridx + 1, tensor_count)
                   THEN ridx' = 0 /\ rstatus' = "blobs"
                   ELSE ridx' = ridx + 1 /\ UNCHANGED rstatus
    /\ UNCHANGED <<tensor_count, metadata_count, rmeta, rtensors>>
    /\ UNCHANGED rdiag
    /\ UNCHANGED <<wvars, corrupted, qvars, vvars, zvars, bvars, pvars, svars>>

\* One iteration of the blob loop for header i: out is "ok" with the payload,
\* "panic" (end - offset overflowed), "eof" or "alloc".
ReadBlob(f, headers, i) ==
    LET offset == headers[i][4]
        end == IF i + 1 <= Len(headers) THEN headers[i + 1][4] ELSE LE(Len(f), 8)
        size == NumSub(end, offset, 0)
    IN  IF NumLess(end, offset) THEN Res("panic", <<>>, 0)
        ELSE IF offset[8] >= 128 THEN Res("eof", <<>>, 0)
        ELSE IF ~FitsInt(size) THEN Res("alloc", <<>>, 0)
        ELSE IF NumLE(size) = 0 THEN Res("ok", <<>>, 0)
        ELSE IF ~FitsInt(offset) \/ ~Avail(f, NumLE(offset), NumLE(size))
             THEN Res("eof", <<>>, 0)
        ELSE Res("ok", Bytes(f, NumLE(offset), NumLE(size)), 0)

\* How a failed blob read ends read_gguf_file: an overflowing end - offset
\* panics in a build with overflow checks; without them the wrapped size
\* fails the seek (offset >= 2^63) or the allocation.
BlobOutcomes(out, offset) ==
    IF out = "panic" THEN (IF offset[8] >= 128 THEN {"Panic", "Err"} ELSE {"Panic"})
    ELSE Outcomes(out)

ReadTensorBlob ==
    /\ rstatus = "blobs"
    /\ LET i == ridx + 1
           h == tensor_headers[i]
           r == ReadBlob(file, tensor_headers, i)
       IN  IF r.out # "ok"
           THEN /\ rstatus' \in BlobOutcomes(r.out, h[4])
                /\ UNCHANGED <<ridx, rtensors>>
           ELSE /\ rtensors' = Append(rtensors, Tensor(h[1], h[2], h[3], h[4], r.val))
                /\ IF i = Len(tensor_headers)
                   THEN ridx' = 0 /\ rstatus' = "Ok"
                   ELSE ridx' = i /\ UNCHANGED rstatus
    /\ UNCHANGED <<rpos, tensor_count, metadata_count, rmeta, tensor_headers>>
    /\ UNCHANGED rdiag
    /\ UNCHANGED <<wvars, corrupted, qvars, vvars, zvars, bvars, pvars, svars>>

-----------------------------------------------------------------------------
(* The container codec: write a file, then read it back *)

\* The container codec before write_gguf_file is called.
CodecIdle ==
    /\ file = <<>>
    /\ wpos = 0
    /\ pc = "w_start"
    /\ widx = 1
    /\ offset_positions = <<>>
    /\ data_offsets = <<>>
    /\ kind_positions = <<>>
    /\ dir_end = 0
    /\ corrupted = FALSE
    /\ rstatus = "start"
    /\ rpos = 0
    /\ tensor_count = LE(0, 8)
    /\ metadata_count = LE(0, 8)
    /\ ridx = 0
    /\ rmeta = <<>>
    /\ tensor_headers = <<>>
    /\ rtensors = <<>>
    /\ rdiag = <<>>

\* The block codecs before an encoder is called.
QuantIdle ==
    /\ qfmt = "none"
    /\ qout = <<>>
    /\ dst = "input"
    /\ dN = 0
    /\ dcur = 0
    /\ decoded = <<>>
    /\ dblocks = <<>>

\* The quantizer before main is entered.
QuantizerIdle ==
    /\ zpc = "start"
    /\ zidx = 1
    /\ quantized = <<>>
    /\ zexit = -1

\* No quantizer run: nothing was read and no format was given.
NoQuantizer ==
    /\ zformat = <<>>
    /\ zin = [out |-> "Ok", metadata |-> <<>>, tensors |-> <<>>]
    /\ QuantizerIdle

\* No block is being packed.
NoPacking ==
    /\ pfmt = "none"
    /\ plevels = <<>>
    /\ ppacked = <<>>
    /\ punpacked = <<>>
    /\ ppc = "levels"

\* load_tensors_from_safetensors before it is entered.
IngestIdle ==
    /\ spc = "start"
    /\ sidx = 1
    /\ sout = <<>>
    /\ all_f32 = TRUE

\* No safetensors file is given.
NoIngest ==
    /\ sfile = [out |-> "Ok", tensors |-> <<>>]
    /\ IngestIdle

\* The validator before main is entered.
ValidIdle ==
    /\ vpc = "start"
    /\ vidx = 1
    /\ errors = 0
    /\ vlog = <<>>
    /\ vexit = -1

Init ==
    /\ metadata \in MetadataMaps
    /\ tensors \in TensorLists
    /\ CodecIdle
    /\ qin = <<>>
    /\ QuantIdle
    /\ vin = [out |-> "Ok", tensors |-> <<>>]
    /\ ValidIdle
    /\ NoQuantizer
    /\ NoPacking
    /\ NoIngest
    /\ overflow_checks = FALSE

Next ==
    \/ WriteHeader
    \/ WriteMetaEntry
    \/ WriteTensorHeader
    \/ WriteTensorData
    \/ Corrupt
    \/ ReadMagic
    \/ ReadCounts
    \/ ReadMetaEntry
    \/ ReadTensorHeader
    \/ ReadTensorBlob

Spec == Init /\ [][Next]_vars

-----------------------------------------------------------------------------
(* f32 values of the block codecs *)

\* The floats the encoders compute with: a small integer, an infinity, NaN,
\* or the constant 1e-6. Bytes in a payload are IEEE-754 bit patterns.
Fin(n) == [c |-> "fin", n |-> n]
PosInf == [c |-> "inf", n |-> 1]
NegInf == [c |-> "inf", n |-> -1]
NaN == [c |-> "nan", n |-> 0]
Tiny == [c |-> "tiny", n |-> 0]

\* a < b for floats other than NaN and 1e-6.
FLess(a, b) ==
    IF a.c = "inf" THEN a.n < 0 /\ b # a
    ELSE IF b.c = "inf" THEN b.n > 0
    ELSE a.n < b.n

\* f32::min and f32::max: a NaN operand is ignored.
FMin(a, b) == IF a.c = "nan" THEN b ELSE IF b.c = "nan" THEN a
              ELSE IF FLess(b, a) THEN b ELSE a
FMax(a, b) == IF a.c = "nan" THEN b ELSE IF b.c = "nan" THEN a
              ELSE IF FLess(a, b) THEN b ELSE a

RECURSIVE FoldMin(_, _)
\* chunk.iter().copied().fold(acc, f32::min)
FoldMin(chunk, acc) ==
    IF chunk = <<>> THEN acc ELSE FoldMin(Tail(chunk), FMin(acc, Head(chunk)))

RECURSIVE FoldMax(_, _)
\* chunk.iter().copied().fold(acc, f32::max)
FoldMax(chunk, acc) ==
    IF chunk = <<>> THEN acc ELSE FoldMax(Tail(chunk), FMax(acc, Head(chunk)))

\* max - min in f32 (max and min are never NaN).
FSub(max, min) ==
    IF max.c = "fin" /\ min.c = "fin" THEN Fin(max.n - min.n)
    ELSE IF max.c = "inf" /\ min.c = "inf"
         THEN (IF max.n = min.n THEN NaN ELSE max)
    ELSE IF max.c = "inf" THEN max
    ELSE IF min.n > 0 THEN NegInf ELSE PosInf

\* (max - min).max(1e-6)
MaxTiny(r) ==
    IF r.c = "nan" THEN Tiny
    ELSE IF r.c = "inf" THEN (IF r.n > 0 THEN r ELSE Tiny)
    ELSE IF r.n >= 1 THEN r ELSE Tiny

RECURSIVE NormShift(_, _, _)
\* The least k >= from with floor(m * 2^k / d) >= 2^23.
NormShift(m, d, from) ==
    IF (m * Pow2(from)) \div d >= Pow2(23) THEN from ELSE NormShift(m, d, from + 1)

\* Bits (little-endian) of the f32 quotient (m * 2^e) / d, rounded to nearest
\* even, for 0 < m < 2^24 and 0 < d < 32.
F32DivBits(m, e, d) ==
    LET k == NormShift(m, d, 0)
        num == m * Pow2(k)
        q0 == num \div d
        rem == num - q0 * d
        up == 2 * rem > d \/ (2 * rem = d /\ q0 % 2 = 1)
        q1 == IF up THEN q0 + 1 ELSE q0
        carry == q1 = Pow2(24)
        q == IF carry THEN Pow2(23) ELSE q1
        ex == (e - k) + 23 + 127 + (IF carry THEN 1 ELSE 0)
    IN  LE(ex * Pow2(23) + (q - Pow2(23)), 4)

InfBits == <<0, 0, 128, 127>>

\* f32 bits of a small integer.
F32OfInt(n) ==
    IF n >= 0 THEN F32OfU8(n) ELSE [F32OfU8(-n) EXCEPT ![4] = @ + 128]

\* 1e-6 as f32 is 8796093 * 2^-43.
TinyMant == 8796093
TinyExp == -43

\* A variant that stores the floor 1e-6 itself as the scale.
ScaleBytes_FloorUndivided(rng, d) ==
    CASE rng.c = "inf" -> InfBits
      [] rng.c = "tiny" -> F32DivBits(TinyMant, TinyExp, 1)
      [] OTHER -> F32DivBits(rng.n, 0, d)

\* write_f32 of rng / d, for rng = (max - min).max(1e-6).
ScaleBytes(rng, d) ==
    CASE rng.c = "inf" -> InfBits
      [] rng.c = "tiny" -> F32DivBits(TinyMant, TinyExp, d)
      [] OTHER -> F32DivBits(rng.n, 0, d)

\* write_f32 of zero = min.
ZeroBytes(min) ==
    IF min.c = "inf" THEN (IF min.n > 0 THEN InfBits ELSE [InfBits EXCEPT ![4] = 255])
    ELSE F32OfInt(min.n)

\* ((v - zero) / scale).round().clamp(0.0, d) as u8. With an infinite scale,
\* with scale 1e-6/d (the block is constant, or zero is infinite) and for a
\* NaN element the quotient is 0 or NaN and the cast gives 0. Otherwise the
\* quotient is tops * (v - zero) / range; the f32 result rounds as the exact
\* one wherever that is no tie, which holds for the values of FVals.
Level(v, min, rng, tops) ==
    IF rng.c = "fin" /\ v.c = "fin"
    THEN LET x == (2 * tops * (v.n - min.n) + rng.n) \div (2 * rng.n)
         IN  IF x < 0 THEN 0 ELSE IF x > tops THEN tops ELSE x
    ELSE 0

-----------------------------------------------------------------------------
(* quantize-rs/src/main.rs: the block encoders *)

BLOCK_SIZE == 32

RECURSIVE Chunks(_, _)
\* slice.chunks(n)
Chunks(s, n) ==
    IF s = <<>> THEN <<>>
    ELSE IF Len(s) <= n THEN <<s>>
    ELSE <<SubSeq(s, 1, n)>> \o Chunks(SubSeq(s, n + 1, Len(s)), n)

\* (scale, zero) of a chunk and its levels, for top level tops (15 or 31).
ChunkMin(chunk) == FoldMin(chunk, PosInf)
ChunkRange(chunk) == MaxTiny(FSub(FoldMax(chunk, NegInf), ChunkMin(chunk)))
ChunkLevels(chunk, tops) ==
    [i \in 1..Len(chunk) |-> Level(chunk[i], ChunkMin(chunk), ChunkRange(chunk), tops)]

\* A variant that stores one level per byte.
PackNibbles_OnePerByte(values) == [k \in 1..Len(values) |-> values[k] % 16]

\* values.chunks(2): low nibble first, a lone last value in the low nibble.
PackNibbles(values) ==
    [k \in 1..((Len(values) + 1) \div 2) |->
        IF 2 * k <= Len(values)
        THEN (values[2 * k - 1] % 16) + 16 * (values[2 * k] % 16)
        ELSE values[2 * k - 1] % 16]

\* One block of quantize_tensor_q4_0.
Q4Block(chunk) ==
    ScaleBytes(ChunkRange(chunk), 15) \o ZeroBytes(ChunkMin(chunk))
        \o PackNibbles(ChunkLevels(chunk, 15))

\* quantize_tensor_q4_0
quantize_tensor_q4_0(tensor) ==
    LET cs == Chunks(tensor, BLOCK_SIZE)
    IN  Concat([i \in 1..Len(cs) |-> Q4Block(cs[i])])

RECURSIVE PackBits5_NoResidue(_, _, _)
\* A variant that drops the residual bits instead of flushing them.
PackBits5_NoResidue(levels, buffer, bits) ==
    IF levels = <<>> THEN <<>>
    ELSE LET b1 == buffer + Head(levels) * Pow2(bits)
             n1 == bits + 5
         IN  IF n1 >= 8
             THEN <<b1 % 256>> \o PackBits5_NoResidue(Tail(levels), b1 \div 256, n1 - 8)
             ELSE PackBits5_NoResidue(Tail(levels), b1, n1)

RECURSIVE PackBits5(_, _, _)
\* The shift accumulator of quantize_tensor_q5_1: 5 bits per level, full
\* bytes flushed as they fill, the residue flushed as a last byte.
PackBits5(levels, buffer, bits) ==
    IF levels = <<>> THEN (IF bits > 0 THEN <<buffer % 256>> ELSE <<>>)
    ELSE LET b1 == buffer + Head(levels) * Pow2(bits)
             n1 == bits + 5
         IN  IF n1 >= 8
             THEN <<b1 % 256>> \o PackBits5(Tail(levels), b1 \div 256, n1 - 8)
             ELSE PackBits5(Tail(levels), b1, n1)

\* One block of quantize_tensor_q5_1.
Q5Block(chunk) ==
    ScaleBytes(ChunkRange(chunk), 31) \o ZeroBytes(ChunkMin(chunk))
        \o PackBits5(ChunkLevels(chunk, 31), 0, 0)

\* quantize_tensor_q5_1
quantize_tensor_q5_1(tensor) ==
    LET cs == Chunks(tensor, BLOCK_SIZE)
    IN  Concat([i \in 1..Len(cs) |-> Q5Block(cs[i])])

\* quantize_tensor: payload of the selected format.
quantize_tensor(tensor, format) ==
    IF format = "Q4_0" THEN quantize_tensor_q4_0(tensor)
    ELSE quantize_tensor_q5_1(tensor)

RECURSIVE BlockStarts(_, _, _)
\* Offsets in the payload at which the encoder's blocks start.
BlockStarts(tensor, format, at) ==
    IF tensor = <<>> THEN <<>>
    ELSE LET n == IF Len(tensor) <= BLOCK_SIZE THEN Len(tensor) ELSE BLOCK_SIZE
             blk == quantize_tensor(SubSeq(tensor, 1, n), format)
         IN  <<at>> \o BlockStarts(SubSeq(tensor, n + 1, Len(tensor)), format,
                                   at + Len(blk))

-----------------------------------------------------------------------------
(* decoder.rs: the block decoders *)

\* f32::is_finite and == 0.0 on a bit pattern.
IsFiniteBits(b) == ~(b[4] % 128 = 127 /\ b[3] >= 128)
IsZeroBits(b) == b[1] = 0 /\ b[2] = 0 /\ b[3] = 0 /\ b[4] % 128 = 0

\* A variant that rejects only a zero scale.
InvalidScale_ZeroOnly(scale) == IsZeroBits(scale)

\* !scale.is_finite() || scale == 0.0
InvalidScale(scale) == ~IsFiniteBits(scale) \/ IsZeroBits(scale)

\* The decoded float scale * q + zero, kept as the expression.
DVal(scale, q, zero) == [scale |-> scale, q |-> q, zero |-> zero]

Min(a, b) == IF a < b THEN a ELSE b

\* State of a decoder after an iteration of its loop.
DState(o, c, d) == [out |-> o, cur |-> c, dec |-> d]

\* A variant that reads the high nibble first.
Nibbles_HighFirst(packed) ==
    [i \in 1..(2 * Len(packed)) |->
        IF i % 2 = 1 THEN (packed[(i + 1) \div 2] \div 16) % 16
        ELSE packed[i \div 2] % 16]

\* The levels of the packed bytes of a Q4_0 block: low nibble, high nibble.
Nibbles(packed) ==
    [i \in 1..(2 * Len(packed)) |->
        IF i % 2 = 1 THEN packed[(i + 1) \div 2] % 16
        ELSE (packed[i \div 2] \div 16) % 16]

\* A variant that reads one byte per value of a block.
Q4PackedLen_BytePerValue(remaining) == Min(remaining, 32)

\* Number of packed bytes a Q4_0 block reads: remaining.min(16).
Q4PackedLen(remaining) == Min(remaining, 16)

\* The result of the loop test after an iteration.
LoopTest(dec, n) == IF Len(dec) < n THEN "loop" ELSE "Ok"

\* One iteration of the while loop of try_decode_q4_0.
Q4Iter(bytes, n, cur, dec) ==
    IF cur + 8 > Len(bytes) THEN DState("UnexpectedEOF", cur, dec)
    ELSE LET scale == Bytes(bytes, cur, 4)
             zero == Bytes(bytes, cur + 4, 4)
             packed_len == Q4PackedLen(Len(bytes) - (cur + 8))
             levels == Nibbles(Bytes(bytes, cur + 8, packed_len))
             take == Min(Len(levels), n - Len(dec))
             out == dec \o [i \in 1..take |-> DVal(scale, levels[i], zero)]
         IN  IF InvalidScale(scale) THEN DState("InvalidScale", cur + 8, dec)
             ELSE DState(LoopTest(out, n), cur + 8 + packed_len, out)

RECURSIVE Drain5(_, _, _)
\* while bits >= 5 { push; acc >>= 5; bits -= 5; if values.len() >= 32 { break } }
Drain5(acc, bits, values) ==
    IF bits < 5 THEN <<acc, bits, values>>
    ELSE LET vs == Append(values, acc % 32)
         IN  IF Len(vs) >= 32 THEN <<acc \div 32, bits - 5, vs>>
             ELSE Drain5(acc \div 32, bits - 5, vs)

RECURSIVE Unpack5(_, _, _, _)
\* for byte in packed { acc |= byte << bits; bits += 8; (drain) }
Unpack5(packed, acc, bits, values) ==
    IF packed = <<>> THEN values
    ELSE LET d == Drain5(acc + Head(packed) * Pow2(bits), bits + 8, values)
         IN  Unpack5(Tail(packed), d[1], d[2], d[3])

\* Number of packed bytes a Q5_1 block reads: remaining.min(20).
Q5PackedLen(remaining) == Min(remaining, 20)

\* One iteration of the while loop of try_decode_q5_1. The last loop pushes a
\* value before it tests the length, and is entered with Len(dec) < n.
Q5Iter(bytes, n, cur, dec) ==
    IF cur + 8 > Len(bytes) THEN DState("UnexpectedEOF", cur, dec)
    ELSE LET scale == Bytes(bytes, cur, 4)
             zero == Bytes(bytes, cur + 4, 4)
             packed_len == Q5PackedLen(Len(bytes) - (cur + 8))
             levels == Unpack5(Bytes(bytes, cur + 8, packed_len), 0, 0, <<>>)
             take == Min(Len(levels), n - Len(dec))
             out == dec \o [i \in 1..take |-> DVal(scale, levels[i], zero)]
         IN  IF InvalidScale(scale) THEN DState("InvalidScale", cur + 8, dec)
             ELSE DState(LoopTest(out, n), cur + 8 + packed_len, out)

\* The iteration of the decoder that matches a format.
DecIter(format, bytes, n, cur, dec) ==
    IF format = "Q4_0" THEN Q4Iter(bytes, n, cur, dec) ELSE Q5Iter(bytes, n, cur, dec)

RECURSIVE DecodeLoop(_, _, _, _)
\* while decoded.len() < expected_len { .. }, to its end.
DecodeLoop(format, bytes, n, st) ==
    IF st.out # "loop" THEN st
    ELSE DecodeLoop(format, bytes, n, DecIter(format, bytes, n, st.cur, st.dec))

\* try_decode_q4_0 / try_decode_q5_1 on a payload and an element count.
try_decode_q(format, bytes, n) ==
    DecodeLoop(format, bytes, n, DState(LoopTest(<<>>, n), 0, <<>>))

-----------------------------------------------------------------------------
(* Encode, then decode with dims = [N] *)

FVals == {Fin(-1), Fin(0), Fin(3), PosInf, NaN}

\* Sequences of 1..MaxN floats: all a, except b at one place.
QInputs ==
    { [i \in 1..n |-> IF i = s THEN b ELSE a] :
        n \in 1..MaxN, a \in FVals, b \in FVals, s \in {1, BLOCK_SIZE + 1} }

Formats == {"Q4_0", "Q5_1"}

\* quantize_tensor(&floats, &format)
Quantize ==
    /\ dst = "input"
    /\ \E f \in Formats :
          /\ qfmt' = f
          /\ qout' = quantize_tensor(qin, f)
    /\ dst' = "encoded"
    /\ UNCHANGED <<qin, dN, dcur, decoded, dblocks>>
    /\ UNCHANGED <<cvars, vvars, zvars, bvars, pvars, svars>>

\* try_decode_q4_0(&payload, &[N]) / try_decode_q5_1: entry and first loop test.
DecodeCall ==
    /\ dst = "encoded"
    /\ dN' = Len(qin)
    /\ dcur' = 0
    /\ decoded' = <<>>
    /\ dblocks' = <<>>
    /\ dst' = LoopTest(<<>>, dN')
    /\ UNCHANGED <<qin, qfmt, qout>>
    /\ UNCHANGED <<cvars, vvars, zvars, bvars, pvars, svars>>

\* One iteration of the decoder's loop.
DecodeBlock ==
    /\ dst = "loop"
    /\ LET r == DecIter(qfmt, qout, dN, dcur, decoded)
       IN  /\ dst' = r.out
           /\ dcur' = r.cur
           /\ decoded' = r.dec
    /\ dblocks' = IF dcur + 8 > Len(qout) THEN dblocks ELSE Append(dblocks, dcur)
    /\ UNCHANGED <<qin, qfmt, qout, dN>>
    /\ UNCHANGED <<cvars, vvars, zvars, bvars, pvars, svars>>

SpecQuant_Init ==
    /\ metadata = <<>>
    /\ tensors = <<>>
    /\ CodecIdle
    /\ qin \in QInputs
    /\ QuantIdle
    /\ vin = [out |-> "Ok", tensors |-> <<>>]
    /\ ValidIdle
    /\ NoQuantizer
    /\ NoPacking
    /\ NoIngest
    /\ overflow_checks = FALSE

SpecQuant_Next ==
    \/ Quantize
    \/ DecodeCall
    \/ DecodeBlock

SpecQuant == SpecQuant_Init /\ [][SpecQuant_Next]_vars

-----------------------------------------------------------------------------
(* decoder.rs: try_decode_f32; gguf-validate/src/main.rs *)

RECURSIVE ProductU64(_, _)
\* dims.iter().product::<u64>(), from the accumulator acc: the wrapped
\* product and whether a multiplication overflowed.
ProductU64(dims, acc) ==
    IF dims = <<>> THEN acc
    ELSE ProductU64(Tail(dims),
                    [num |-> U64Mul(acc.num, Head(dims)).num,
                     overflow |-> acc.overflow \/ U64Mul(acc.num, Head(dims)).overflow])

\* let expected_len = dims.iter().product::<u64>() as usize;
ExpectedLen(dims) == ProductU64(dims, [num |-> LE(1, 8), overflow |-> FALSE])

\* Vec::<f32>::with_capacity(n) panics with a capacity overflow when 4 * n
\* exceeds isize::MAX, that is from n = 2^61 on.
CapacityOverflow(n) == n[8] >= 32

\* More elements than a payload of so many bytes can hold in any format.
Unbounded(bytes) == 2 * Len(bytes) + 1

\* The product of the dims as an integer, where it is below 2^24, and 2^24
\* (more than any payload of the model holds) where it is not.
Product(dims) ==
    IF ~ExpectedLen(dims).overflow /\ FitsInt(ExpectedLen(dims).num)
    THEN NumLE(ExpectedLen(dims).num) ELSE Pow2(24)

\* Result of a decoder: Ok with its floats, or the error.
DRes(o, fl) == [out |-> o, floats |-> fl]

\* bytes.chunks_exact(4): every whole 4-byte group of the payload.
ChunksExact4(bytes) ==
    [i \in 1..(Len(bytes) \div 4) |-> Bytes(bytes, 4 * (i - 1), 4)]

\* The two tests of try_decode_f32 on the wrapped expected_len * 4 (four4).
F32Tests(bytes, four4, wrapped) ==
    IF Len(bytes) % 4 # 0 THEN DRes("InvalidBlock", <<>>)
    ELSE IF NumLess(LE(Len(bytes), 8), four4) THEN DRes("UnexpectedEOF", <<>>)
    ELSE IF wrapped THEN DRes("Panic", <<>>)
    ELSE DRes("Ok", ChunksExact4(bytes))

\* try_decode_f32. A multiplication that overflows panics in a build with
\* overflow checks; without them it wraps, and expected_len is then at least
\* 2^62, for which Vec::with_capacity panics.
try_decode_f32(bytes, dims, checks) ==
    IF checks /\ ExpectedLen(dims).overflow THEN DRes("Panic", <<>>)
    ELSE IF Len(bytes) % 4 # 0 THEN DRes("InvalidBlock", <<>>)
    ELSE IF checks /\ U64Mul(ExpectedLen(dims).num, LE(4, 8)).overflow
         THEN DRes("Panic", <<>>)
    ELSE F32Tests(bytes, U64Mul(ExpectedLen(dims).num, LE(4, 8)).num,
                  U64Mul(ExpectedLen(dims).num, LE(4, 8)).overflow)

\* A block decoder's result for an element count the model holds.
DecodeQN(format, bytes, n) ==
    DRes(try_decode_q(format, bytes, n).out,
         IF try_decode_q(format, bytes, n).out = "Ok"
         THEN try_decode_q(format, bytes, n).dec ELSE <<>>)

\* try_decode_q4_0 / try_decode_q5_1 as the validator calls them: the
\* results the call can have. Vec::with_capacity(expected_len) panics from
\* 2^61 elements on; below that a count of 2^24 or more either fails to
\* allocate (the process aborts) or the loop runs until the payload ends.
DecodeQ(format, bytes, dims, checks) ==
    IF checks /\ ExpectedLen(dims).overflow THEN {DRes("Panic", <<>>)}
    ELSE IF CapacityOverflow(ExpectedLen(dims).num) THEN {DRes("Panic", <<>>)}
    ELSE IF ~FitsInt(ExpectedLen(dims).num)
         THEN {DecodeQN(format, bytes, Unbounded(bytes)), DRes("Abort", <<>>)}
    ELSE {DecodeQN(format, bytes, NumLE(ExpectedLen(dims).num))}

\* match tensor.type_id { 0 => .., 100 => .., 101 => .., _ => skip }
ValidateOne(t, checks) ==
    IF NumLE(t.type_id) = 0 THEN {try_decode_f32(t.values, t.dims, checks)}
    ELSE IF NumLE(t.type_id) = 100 THEN DecodeQ("Q4_0", t.values, t.dims, checks)
    ELSE IF NumLE(t.type_id) = 101 THEN DecodeQ("Q5_1", t.values, t.dims, checks)
    ELSE {DRes("skipped", <<>>)}

\* Tensors a GGUF file can hold, as read_gguf_file returns them.
VTensor(t, dims, values) ==
    Tensor(<<116>>, LE(t, 4), [i \in 1..Len(dims) |-> LE(dims[i], 8)], LE(0, 8), values)

\* The same with dims given as u64 numerals.
VTensorU64(t, dims, values) == Tensor(<<116>>, LE(t, 4), dims, LE(0, 8), values)

\* 2^62 and 2^32 as u64.
U64_2_62 == <<0, 0, 0, 0, 0, 0, 0, 64>>
U64_2_32 == <<0, 0, 0, 0, 1, 0, 0, 0>>

VTensorPool ==
    { VTensor(0, <<1>>, <<0, 0, 128, 63>>),
      VTensor(0, <<1>>, <<0, 0, 128, 63, 0, 0, 0, 64>>),
      VTensor(0, <<2>>, <<0, 0, 128, 63>>),
      VTensor(0, <<1>>, <<0, 0, 128, 63, 9>>),
      VTensor(0, <<>>, <<0, 0, 0, 64>>),
      VTensor(0, <<2, 1>>, <<0, 0, 128, 63, 0, 0, 0, 64>>),
      VTensor(100, <<3>>, quantize_tensor_q4_0(<<Fin(-1), Fin(0), Fin(3)>>)),
      VTensor(100, <<2>>, <<0, 0, 0, 0, 0, 0, 128, 63, 33>>),
      VTensor(100, <<0>>, <<>>),
      VTensor(101, <<33>>, quantize_tensor_q5_1([i \in 1..32 |-> Fin(0)])),
      VTensor(101, <<3>>, quantize_tensor_q5_1(<<Fin(-1), Fin(0), Fin(3)>>)),
      VTensor(7, <<2>>, <<3, 200>>),
      VTensor(0, <<2>>, <<0, 0, 128, 63, 9>>),
      VTensorU64(0, <<U64_2_62>>, <<>>),
      VTensorU64(0, <<U64_2_32, U64_2_32>>, <<0, 0, 128, 63>>),
      VTensorU64(100, <<U64_2_62>>, <<>>),
      VTensorU64(101, <<U64_2_32>>, quantize_tensor_q5_1(<<Fin(-1), Fin(0), Fin(3)>>)) }

VInputs ==
    { [out |-> "Ok", tensors |-> l] :
        l \in UNION { [1..n -> VTensorPool] : n \in 0..MaxVTensors } }
    \cup { [out |-> "Err", tensors |-> <<>>] }

\* let (metadata, tensors) = read_gguf_file(&path)?; let mut errors = 0;
ValidateRead ==
    /\ vpc = "start"
    /\ IF vin.out = "Ok"
       THEN vpc' = "loop" /\ vexit' = vexit
       ELSE vpc' = "done" /\ vexit' = 1
    /\ UNCHANGED <<vin, vidx, errors, vlog>>
    /\ UNCHANGED <<cvars, qvars, zvars, bvars, pvars, svars>>

\* errors after the validator handled a tensor with result r.
ErrorsAfter(n, r) == IF r.out \in {"Ok", "skipped"} THEN n ELSE n + 1

\* Exit status of a process that panicked (101) or aborted (134, SIGABRT).
DeathStatus(out) == IF out = "Panic" THEN 101 ELSE 134

\* One iteration of for tensor in tensors { .. }. A panic or an abort in a
\* decoder ends the process.
ValidateTensor ==
    /\ vpc = "loop"
    /\ vidx <= Len(vin.tensors)
    /\ \E r \in ValidateOne(vin.tensors[vidx], overflow_checks) :
          IF r.out \in {"Panic", "Abort"}
          THEN /\ vpc' = "done"
               /\ vexit' = DeathStatus(r.out)
               /\ UNCHANGED <<vlog, errors, vidx>>
          ELSE /\ vlog' = Append(vlog, r)
               /\ errors' = ErrorsAfter(errors, r)
               /\ vidx' = vidx + 1
               /\ UNCHANGED <<vpc, vexit>>
    /\ UNCHANGED vin
    /\ UNCHANGED <<cvars, qvars, zvars, bvars, pvars, svars>>

\* if errors == 0 { Ok(()) } else { std::process::exit(1) }
ValidateFinish ==
    /\ vpc = "loop"
    /\ vidx > Len(vin.tensors)
    /\ vexit' = IF errors = 0 THEN 0 ELSE 1
    /\ vpc' = "done"
    /\ UNCHANGED <<vin, vidx, errors, vlog>>
    /\ UNCHANGED <<cvars, qvars, zvars, bvars, pvars, svars>>

SpecValidate_Init ==
    /\ metadata = <<>>
    /\ tensors = <<>>
    /\ CodecIdle
    /\ qin = <<>>
    /\ QuantIdle
    /\ vin \in VInputs
    /\ ValidIdle
    /\ NoQuantizer
    /\ NoPacking
    /\ NoIngest
    /\ overflow_checks \in BOOLEAN

SpecValidate_Next ==
    \/ ValidateRead
    \/ ValidateTensor
    \/ ValidateFinish

SpecValidate == SpecValidate_Init /\ [][SpecValidate_Next]_vars

-----------------------------------------------------------------------------
(* The validator on files of one tensor: each decoder on its own *)

\* Scale fields: 1.0, 0.0, -0.0, +inf, a NaN, and the smallest subnormal.
DScales ==
    { <<0, 0, 128, 63>>, <<0, 0, 0, 0>>, <<0, 0, 0, 128>>, InfBits,
      <<1, 0, 192, 127>>, <<1, 0, 0, 0>> }

\* A block header with the given scale and zero 1.0, cut to n bytes, or
\* followed by one packed byte where n = 9.
DBlock(scale, n) == SubSeq(scale \o <<0, 0, 128, 63, 33>>, 1, n)

\* Payloads of block tensors: nothing, one short or partial block, or a full
\* block of 32 zeros as the encoder writes it and then such a block.
DPayloads(format) ==
    { DBlock(s, n) : s \in DScales, n \in {0, 7, 9} }
    \cup { quantize_tensor([i \in 1..BLOCK_SIZE |-> Fin(0)], format) \o DBlock(s, n) :
             s \in DScales, n \in {0, 9} }

\* Dims of the tensors: products 1, 0, 1, 2, 32, 33, 2^32, 2^61, 2^62, 2^64.
DDims ==
    { <<>>, <<LE(0, 8)>>, <<LE(1, 8)>>, <<LE(2, 8), LE(1, 8)>>, <<LE(32, 8)>>,
      <<LE(33, 8)>>, <<U64_2_32>>, <<LE(2, 8), <<0, 0, 0, 0, 0, 0, 0, 16>>>>,
      <<U64_2_62>>, <<U64_2_32, U64_2_32>> }

\* F32 payloads of 0 to 9 bytes.
DF32Payloads == { SubSeq(<<0, 0, 128, 63, 0, 0, 0, 64, 9>>, 1, n) : n \in 0..9 }

DTensorPool ==
    { VTensorU64(0, d, b) : d \in DDims, b \in DF32Payloads }
    \cup { VTensorU64(100, d, b) : d \in DDims, b \in DPayloads("Q4_0") }
    \cup { VTensorU64(101, d, b) : d \in DDims, b \in DPayloads("Q5_1") }

SpecDecode_Init ==
    /\ metadata = <<>>
    /\ tensors = <<>>
    /\ CodecIdle
    /\ qin = <<>>
    /\ QuantIdle
    /\ vin \in { [out |-> "Ok", tensors |-> <<t>>] : t \in DTensorPool }
    /\ ValidIdle
    /\ NoQuantizer
    /\ NoPacking
    /\ NoIngest
    /\ overflow_checks \in BOOLEAN

SpecDecode == SpecDecode_Init /\ [][SpecValidate_Next]_vars

-----------------------------------------------------------------------------
(* quantize-rs/src/main.rs: main *)

\* Bits of an f32 (the quiet NaN for NaN).
F32Bits(v) == IF v.c = "nan" THEN <<0, 0, 192, 127>> ELSE ZeroBytes(v)

\* The floats whose bits the inputs of the quantizer hold.
KnownFloats == {Fin(n) : n \in -4..4} \cup {PosInf, NegInf, NaN}

\* f32::from_le_bytes on the bits of a known float.
FloatOfBits(b) == CHOOSE v \in KnownFloats : F32Bits(v) = b

\* The payload that holds the floats fs as little-endian f32.
F32Payload(fs) == Concat([i \in 1..Len(fs) |-> F32Bits(fs[i])])

\* for chunk in t.values.chunks_exact(4) { floats.push(f32::from_le_bytes(..)) }
FloatsOf(values) == [i \in 1..(Len(values) \div 4) |-> FloatOfBits(Bytes(values, 4 * (i - 1), 4))]

\* char::to_lowercase on ASCII bytes.
ToLower(str) == [i \in 1..Len(str) |-> IF str[i] >= 65 /\ str[i] <= 90 THEN str[i] + 32 ELSE str[i]]

Str_q4_0 == <<113, 52, 95, 48>>
Str_q5_1 == <<113, 53, 95, 49>>
Str_Q4_0 == <<81, 52, 95, 48>>
Str_Q5_1 == <<81, 53, 95, 49>>
Str_quantized == <<113, 117, 97, 110, 116, 105, 122, 101, 100>>
Str_quantization_format == <<113, 117, 97, 110, 116, 105, 122, 97, 116, 105, 111, 110, 95, 102, 111, 114, 109, 97, 116>>
Str_precision == <<112, 114, 101, 99, 105, 115, 105, 111, 110>>

\* impl From<String> for QuantizationType
ParseFormat(str) ==
    IF ToLower(str) = Str_q4_0 THEN "Q4_0"
    ELSE IF ToLower(str) = Str_q5_1 THEN "Q5_1"
    ELSE "Unknown"

\* QuantizationType::as_str
FormatName(format) == IF format = "Q4_0" THEN Str_Q4_0 ELSE Str_Q5_1

\* A variant that tags every output with the Q4_0 code.
NewTypeId_AlwaysQ4(format) == LE(100, 4)

\* The type code quantize_tensor returns with the payload.
NewTypeId(format) == IF format = "Q4_0" THEN LE(100, 4) ELSE LE(101, 4)

\* The closure of tensors.into_iter().map(..) on a tensor whose float_count
\* is n: a panic when the payload holds another number of floats.
MapWithCount(t, format, n) ==
    IF Len(FloatsOf(t.values)) # n THEN [out |-> "Panic"]
    ELSE [out |-> "ok",
          tensor |-> Tensor(t.name, NewTypeId(format), t.dims, LE(0, 8),
                            quantize_tensor(FloatsOf(t.values), format))]

\* The results the closure can have: the product of the dims can overflow,
\* and Vec::with_capacity(float_count) can panic (from 2^61 on) or fail to
\* allocate; a count of 2^24 or more is never the payload's.
MapTensor(t, format, checks) ==
    IF checks /\ ExpectedLen(t.dims).overflow THEN {[out |-> "Panic"]}
    ELSE IF CapacityOverflow(ExpectedLen(t.dims).num) THEN {[out |-> "Panic"]}
    ELSE IF ~FitsInt(ExpectedLen(t.dims).num) THEN {[out |-> "Panic"], [out |-> "Abort"]}
    ELSE {MapWithCount(t, format, NumLE(ExpectedLen(t.dims).num))}

\* The three metadata.insert calls of main.
InjectMetadata(m, format) ==
    Insert(Insert(Insert(m, Str_quantized, Val("Bool", TRUE)),
                  Str_quantization_format, Val("String", FormatName(format))),
           Str_precision, Val("F64", <<0, 0, 0, 0, 0, 0, 240, 63>>))

\* Inputs of the quantizer.
ZTensor(name, t, dims, values) == Tensor(name, LE(t, 4), dims, LE(0, 8), values)

ZTensorPool ==
    { ZTensor(<<119>>, 0, <<LE(3, 8), LE(1, 8)>>, F32Payload(<<Fin(-1), PosInf, Fin(3)>>)),
      ZTensor(<<98>>, 0, <<>>, F32Payload(<<Fin(1)>>)),
      ZTensor(<<120>>, 0, <<LE(2, 8)>>, F32Payload(<<Fin(1)>>)),
      ZTensor(<<121>>, 7, <<LE(1, 8)>>, F32Payload(<<Fin(3)>>) \o <<9>>),
      ZTensor(<<111>>, 0, <<U64_2_32, U64_2_32>>, <<>>) }

ZMetadata ==
    { <<>>,
      [k \in {Str_precision} |-> Val("F64", <<0, 0, 0, 0, 0, 0, 0, 64>>)],
      [k \in {Str_quantized, <<97>>} |-> Val("Bool", FALSE)] }

ZFormats == {Str_Q4_0, Str_q5_1, <<81, 56>>}

ZInputs ==
    { [out |-> "Ok", metadata |-> m, tensors |-> l] :
        m \in ZMetadata, l \in UNION { [1..n -> ZTensorPool] : n \in 0..MaxQTensors } }
    \cup { [out |-> "Err", metadata |-> <<>>, tensors |-> <<>>] }

\* main up to the map: an unknown format exits 1; a failed read is returned.
QuantizeRead ==
    /\ zpc = "start"
    /\ IF ParseFormat(zformat) = "Unknown" \/ zin.out # "Ok"
       THEN zpc' = "done" /\ zexit' = 1
       ELSE zpc' = "map" /\ zexit' = zexit
    /\ UNCHANGED <<zformat, zin, zidx, quantized>>
    /\ UNCHANGED <<cvars, qvars, vvars, bvars, pvars, svars>>

\* The map closure on one tensor.
QuantizeTensor ==
    /\ zpc = "map"
    /\ zidx <= Len(zin.tensors)
    /\ \E r \in MapTensor(zin.tensors[zidx], ParseFormat(zformat), overflow_checks) :
          IF r.out # "ok"
          THEN /\ zpc' = "done"
               /\ zexit' = DeathStatus(r.out)
               /\ UNCHANGED <<zidx, quantized>>
          ELSE /\ quantized' = Append(quantized, r.tensor)
               /\ zidx' = zidx + 1
               /\ UNCHANGED <<zpc, zexit>>
    /\ UNCHANGED <<zformat, zin>>
    /\ UNCHANGED <<cvars, qvars, vvars, bvars, pvars, svars>>

\* The metadata inserts and the call of write_gguf_file.
QuantizeWrite ==
    /\ zpc = "map"
    /\ zidx > Len(zin.tensors)
    /\ pc = "w_uncalled"
    /\ metadata' = InjectMetadata(zin.metadata, ParseFormat(zformat))
    /\ tensors' = quantized
    /\ pc' = "w_start"
    /\ zpc' = "writing"
    /\ UNCHANGED <<file, wpos, widx, offset_positions, data_offsets,
                   kind_positions, dir_end, corrupted>>
    /\ UNCHANGED <<zformat, zin, zidx, quantized, zexit>>
    /\ UNCHANGED <<rvars, qvars, vvars, bvars, pvars, svars>>

\* write_gguf_file returned: Ok(()).
QuantizeExit ==
    /\ zpc = "writing"
    /\ pc = "written"
    /\ zpc' = "done"
    /\ zexit' = 0
    /\ UNCHANGED <<zformat, zin, zidx, quantized>>
    /\ UNCHANGED <<cvars, qvars, vvars, bvars, pvars, svars>>

SpecQuantizer_Init ==
    /\ metadata = <<>>
    /\ tensors = <<>>
    /\ file = <<>>
    /\ wpos = 0
    /\ pc = "w_uncalled"
    /\ widx = 1
    /\ offset_positions = <<>>
    /\ data_offsets = <<>>
    /\ kind_positions = <<>>
    /\ dir_end = 0
    /\ corrupted = FALSE
    /\ rstatus = "start"
    /\ rpos = 0
    /\ tensor_count = LE(0, 8)
    /\ metadata_count = LE(0, 8)
    /\ ridx = 0
    /\ rmeta = <<>>
    /\ tensor_headers = <<>>
    /\ rtensors = <<>>
    /\ rdiag = <<>>
    /\ qin = <<>>
    /\ QuantIdle
    /\ vin = [out |-> "Ok", tensors |-> <<>>]
    /\ ValidIdle
    /\ zformat \in ZFormats
    /\ zin \in ZInputs
    /\ QuantizerIdle
    /\ overflow_checks \in BOOLEAN
    /\ NoPacking
    /\ NoIngest

SpecQuantizer_Next ==
    \/ QuantizeRead
    \/ QuantizeTensor
    \/ QuantizeWrite
    \/ WriteHeader
    \/ WriteMetaEntry
    \/ WriteTensorHeader
    \/ WriteTensorData
    \/ QuantizeExit

SpecQuantizer == SpecQuantizer_Init /\ [][SpecQuantizer_Next]_vars

-----------------------------------------------------------------------------
(* Packing the levels of one block, and unpacking them *)

\* Levels the clamp of an encoder can give: 0..15 or 0..31.
PLevelValues(format) == IF format = "Q4_0" THEN {0, 5, 10, 15} ELSE {0, 10, 21, 31}

\* The levels of a chunk of 1..32 elements: all a, except b at one place.
PBlocks(format) ==
    { [i \in 1..k |-> IF i = s THEN b ELSE a] :
        k \in 1..BLOCK_SIZE, s \in 1..BLOCK_SIZE,
        a \in PLevelValues(format), b \in PLevelValues(format) }

\* The packing loop of the encoder: values.chunks(2) in quantize_tensor_q4_0,
\* the shift accumulator in quantize_tensor_q5_1.
PackLevels ==
    /\ ppc = "levels"
    /\ ppacked' = IF pfmt = "Q4_0" THEN PackNibbles(plevels)
                  ELSE PackBits5(plevels, 0, 0)
    /\ ppc' = "packed"
    /\ UNCHANGED <<pfmt, plevels, punpacked>>
    /\ UNCHANGED <<cvars, qvars, vvars, zvars, bvars, svars>>

\* The unpacking loop of the decoder over the packed bytes it reads for a
\* block: remaining.min(16) bytes in try_decode_q4_0, remaining.min(20) in
\* try_decode_q5_1.
UnpackLevels ==
    /\ ppc = "packed"
    /\ punpacked' =
          IF pfmt = "Q4_0"
          THEN Nibbles(Bytes(ppacked, 0, Q4PackedLen(Len(ppacked))))
          ELSE Unpack5(Bytes(ppacked, 0, Q5PackedLen(Len(ppacked))), 0, 0, <<>>)
    /\ ppc' = "unpacked"
    /\ UNCHANGED <<pfmt, plevels, ppacked>>
    /\ UNCHANGED <<cvars, qvars, vvars, zvars, bvars, svars>>

SpecPack_Init ==
    /\ metadata = <<>>
    /\ tensors = <<>>
    /\ CodecIdle
    /\ qin = <<>>
    /\ QuantIdle
    /\ vin = [out |-> "Ok", tensors |-> <<>>]
    /\ ValidIdle
    /\ NoQuantizer
    /\ NoIngest
    /\ overflow_checks = FALSE
    /\ pfmt \in Formats
    /\ plevels \in PBlocks(pfmt)
    /\ ppacked = <<>>
    /\ punpacked = <<>>
    /\ ppc = "levels"

SpecPack_Next ==
    \/ PackLevels
    \/ UnpackLevels

SpecPack == SpecPack_Init /\ [][SpecPack_Next]_vars

-----------------------------------------------------------------------------
(* gguf-writer/src/main.rs: load_tensors_from_safetensors *)

\* The little-endian bytes of the f32 with sign s, biased exponent e and
\* 23-bit mantissa m.
F32Bytes(s, e, m) ==
    <<m % 256, (m \div 256) % 256, (m \div 65536) + 128 * (e % 2), 128 * s + e \div 2>>

\* f16::from_le_bytes([lo, hi]).to_f32().to_bits().to_le_bytes(): zero,
\* subnormal (normalized in f32), normal, infinity and NaN (made quiet).
F16ToF32(lo, hi) ==
    LET sign == hi \div 128
        ex == (hi % 128) \div 4
        man == 256 * (hi % 4) + lo
    IN  IF ex = 0 /\ man = 0 THEN F32Bytes(sign, 0, 0)
        ELSE IF ex = 0
             THEN F32Bytes(sign, 103 + Log2Floor(man),
                           (man - Pow2(Log2Floor(man))) * Pow2(23 - Log2Floor(man)))
        ELSE IF ex = 31 /\ man = 0 THEN F32Bytes(sign, 255, 0)
        ELSE IF ex = 31 THEN F32Bytes(sign, 255, Pow2(22) + (man % 512) * Pow2(13))
        ELSE F32Bytes(sign, ex + 112, man * Pow2(13))

\* A variant that puts the two bytes in the low half of the word.
BF16ToF32_LowHalf(lo, hi) == <<lo, hi, 0, 0>>

\* (((hi as u32) << 24) | ((lo as u32) << 16)).to_le_bytes()
BF16ToF32(lo, hi) == <<0, 0, lo, hi>>

\* tv.data().chunks_exact(2).flat_map(|c| bits.to_le_bytes()).collect()
Widen(dtype, data) ==
    Concat([k \in 1..(Len(data) \div 2) |->
              IF dtype = "F16" THEN F16ToF32(data[2 * k - 1], data[2 * k])
              ELSE BF16ToF32(data[2 * k - 1], data[2 * k])])

\* The match on tv.dtype(): the payload of the tensor pushed, or none.
IngestBytes(tv) ==
    CASE tv.dtype = "F32" -> <<tv.data>>
      [] tv.dtype \in {"F16", "BF16"} -> <<Widen(tv.dtype, tv.data)>>
      [] OTHER -> <<>>

\* A tensor view of a deserialized file. SafeTensors::deserialize accepts a
\* tensor only if its data has (product of shape) * (size of dtype) bytes.
STensor(name, dtype, shape, data) ==
    [name |-> name, dtype |-> dtype, shape |-> shape, data |-> data]

STensorPool ==
    { STensor(<<97>>, "F32", <<2>>, <<0, 0, 128, 63, 1, 2, 3, 4>>),
      STensor(<<98>>, "BF16", <<2>>, <<128, 63, 52, 18>>),
      STensor(<<99>>, "F16", <<3>>, <<0, 60, 1, 0, 0, 252>>),
      STensor(<<100>>, "I64", <<1>>, <<1, 0, 0, 0, 0, 0, 0, 0>>),
      STensor(<<101>>, "U8", <<2>>, <<7, 9>>),
      STensor(<<102>>, "BF16", <<>>, <<1, 2>>),
      STensor(<<103>>, "F32", <<0>>, <<>>),
      STensor(<<104>>, "F16", <<2, 1>>, <<255, 123, 1, 126>>) }

\* What fs::read and SafeTensors::deserialize give: an error, or the tensors
\* in the order st.tensors() yields them, each name once.
SInputs ==
    { [out |-> "Ok", tensors |-> l] :
        l \in { m \in UNION { [1..n -> STensorPool] : n \in 0..MaxSTensors } :
                  \A i, j \in DOMAIN m : i # j => m[i] # m[j] } }
    \cup { [out |-> "Err", tensors |-> <<>>] }

\* let data = fs::read(path)?; let st = SafeTensorFile::deserialize(&data)?;
IngestOpen ==
    /\ spc = "start"
    /\ spc' = IF sfile.out = "Ok" THEN "loop" ELSE "failed"
    /\ UNCHANGED <<sfile, sidx, sout, all_f32>>
    /\ UNCHANGED <<cvars, qvars, vvars, zvars, bvars, pvars>>

\* One iteration of for (name, tv) in st.tensors() { .. }
IngestTensor ==
    /\ spc = "loop"
    /\ sidx <= Len(sfile.tensors)
    /\ LET tv == sfile.tensors[sidx]
       IN  /\ all_f32' = (all_f32 /\ tv.dtype \notin {"F16", "BF16"})
           /\ sout' = IF IngestBytes(tv) = <<>> THEN sout
                      ELSE Append(sout,
                                  Tensor(tv.name, LE(0, 4),
                                         [i \in 1..Len(tv.shape) |-> LE(tv.shape[i], 8)],
                                         LE(0, 8), IngestBytes(tv)[1]))
    /\ sidx' = sidx + 1
    /\ UNCHANGED <<sfile, spc>>
    /\ UNCHANGED <<cvars, qvars, vvars, zvars, bvars, pvars>>

\* Ok((out, all_f32))
IngestReturn ==
    /\ spc = "loop"
    /\ sidx > Len(sfile.tensors)
    /\ spc' = "returned"
    /\ UNCHANGED <<sfile, sidx, sout, all_f32>>
    /\ UNCHANGED <<cvars, qvars, vvars, zvars, bvars, pvars>>

SpecIngest_Init ==
    /\ metadata = <<>>
    /\ tensors = <<>>
    /\ CodecIdle
    /\ qin = <<>>
    /\ QuantIdle
    /\ vin = [out |-> "Ok", tensors |-> <<>>]
    /\ ValidIdle
    /\ NoQuantizer
    /\ NoPacking
    /\ overflow_checks = FALSE
    /\ sfile \in SInputs
    /\ IngestIdle

SpecIngest_Next ==
    \/ IngestOpen
    \/ IngestTensor
    \/ IngestReturn

SpecIngest == SpecIngest_Init /\ [][SpecIngest_Next]_vars

-----------------------------------------------------------------------------
(* The reader on files with any tensor directory *)

\* A metadata block of no entry, or of the entry "a" = String("t").
RawMetadata == { <<>>, <<EncodeEntry(<<97>>, Val("String", <<116>>))>> }

\* A GGUF file with the given metadata entries, one tensor header per
\* data_offset (name "t", type 0, dims [1]) and 8 bytes of tensor data.
RawFile(entries, offsets) ==
    Magic \o LE(2, 4) \o LE(Len(offsets), 8) \o LE(Len(entries), 8)
        \o Concat(entries)
        \o Concat([i \in 1..Len(offsets) |->
                     EncodeTensorHeader(Tensor(<<116>>, LE(0, 4), <<LE(1, 8)>>,
                                               LE(0, 8), <<>>)) \o offsets[i]])
        \o <<0, 0, 128, 63, 0, 0, 0, 64>>

\* Values of a data_offset field for a file of length l whose directory
\* ends at d: inside the data, at the end, past the end, 0, 2^63, 2^64 - 1.
RawOffsets(d, l) ==
    { LE(d, 8), LE(d + 4, 8), LE(l, 8), LE(l + 1, 8), LE(0, 8),
      <<0, 0, 0, 0, 0, 0, 0, 128>>, [i \in 1..8 |-> 255] }

\* Where the directory of such a file ends: the header, the entries and n
\* tensor headers of 33 bytes.
RawDirEnd(entries, n) == 24 + Len(Concat(entries)) + 33 * n

\* The files: every choice of data_offset fields for 1..MaxRawTensors headers.
RawFiles ==
    UNION { { RawFile(e, o) :
                o \in [1..n -> RawOffsets(RawDirEnd(e, n), RawDirEnd(e, n) + 8)] } :
            e \in RawMetadata, n \in 1..MaxRawTensors }

SpecReadDir_Init ==
    /\ metadata = <<>>
    /\ tensors = <<>>
    /\ file \in RawFiles
    /\ wpos = Len(file)
    /\ pc = "written"
    /\ widx = 1
    /\ offset_positions = <<>>
    /\ data_offsets = <<>>
    /\ kind_positions = <<>>
    /\ dir_end = 0
    /\ corrupted = FALSE
    /\ rstatus = "start"
    /\ rpos = 0
    /\ tensor_count = LE(0, 8)
    /\ metadata_count = LE(0, 8)
    /\ ridx = 0
    /\ rmeta = <<>>
    /\ tensor_headers = <<>>
    /\ rtensors = <<>>
    /\ rdiag = <<>>
    /\ qin = <<>>
    /\ QuantIdle
    /\ vin = [out |-> "Ok", tensors |-> <<>>]
    /\ ValidIdle
    /\ NoQuantizer
    /\ NoPacking
    /\ NoIngest
    /\ overflow_checks = FALSE

SpecReadDir_Next ==
    \/ ReadMagic
    \/ ReadCounts
    \/ ReadMetaEntry
    \/ ReadTensorHeader
    \/ ReadTensorBlob

SpecReadDir == SpecReadDir_Init /\ [][SpecReadDir_Next]_vars

-----------------------------------------------------------------------------
(* Properties of the container codec *)

\* The reader has returned (a result or a panic).
ReadOver == rstatus \in {"Ok", "BadMagic", "Err", "Panic"}

\* Key -> value equality of two metadata maps.
SameMetadata(m1, m2) ==
    /\ DOMAIN m1 = DOMAIN m2
    /\ \A k \in DOMAIN m1 : m1[k].kind = m2[k].kind /\ m1[k].val = m2[k].val

\* Field-wise equality of two tensor lists (name, type code, dims, payload).
SameTensors(t1, t2) ==
    /\ Len(t1) = Len(t2)
    /\ \A i \in 1..Len(t1) :
          /\ t1[i].name = t2[i].name
          /\ t1[i].type_id = t2[i].type_id
          /\ t1[i].dims = t2[i].dims
          /\ t1[i].values = t2[i].values

\* C1: reading the file that write_gguf_file produced returns the metadata
\* and the tensors that were written (key -> value, and name, type code, dims
\* and payload bytes in the same order).
C1_RoundTrip ==
    (ReadOver /\ ~corrupted) =>
        /\ rstatus = "Ok"
        /\ SameMetadata(rmeta, metadata)
        /\ SameTensors(rtensors, tensors)

\* The kind byte of the i-th metadata entry, as it stands in the file.
EmittedKindByte(i) == file[kind_positions[i] + 1]

\* C2: every metadata value is tagged with the code of the wire table, the
\* code that from_u8 maps back to the value's kind.
C2_KindCodes ==
    ~corrupted =>
        \A i \in 1..Len(kind_positions) :
            LET kind == metadata[SortedKeys(DOMAIN metadata)[i]].kind
            IN  /\ FromU8(EmittedKindByte(i)) = kind
                /\ EmittedKindByte(i) = ToU8(kind)

\* The data_offset field of header i, as it stands in the file.
OffsetField(i) == Bytes(file, offset_positions[i], 8)

\* C3: the data region is the tensors' payload bytes, verbatim, in order and
\* without padding: offset[i+1] = offset[i] + len(payload[i]) and the file
\* ends at offset[last] + len(payload[last]).
C3_PayloadsVerbatim ==
    (pc = "written" /\ ~corrupted) =>
        \A i \in 1..Len(tensors) :
            LET off == NumLE(OffsetField(i))
                n == Len(tensors[i].values)
            IN  /\ Avail(file, off, n)
                /\ Bytes(file, off, n) = tensors[i].values
                /\ IF i < Len(tensors)
                   THEN NumLE(OffsetField(i + 1)) = off + n
                   ELSE Len(file) = off + n

\* The writer has returned Ok(()) and the file is as it left it.
WriterDone == pc = "written" /\ ~corrupted

\* C4: after the writer returns, the data_offset field of every header holds
\* the position at which the payload's bytes start, at or after the end of
\* the tensor directory; and every data step leaves the stream at the end of
\* the file and changes no byte of the file but the eight of the placeholder.
C4_Backpatch ==
    [][ /\ WriterDone' =>
            \A i \in 1..Len(tensors') :
                /\ OffsetField(i)' = LE(data_offsets'[i], 8)
                /\ OffsetField(i)' # LE(0, 8)
                /\ data_offsets'[i] >= dir_end'
                /\ dir_end' = offset_positions'[Len(tensors')] + 8
                /\ Bytes(file', data_offsets'[i], Len(PayloadBytes(tensors'[i])))
                      = PayloadBytes(tensors'[i])
        /\ pc = "w_data" =>
            /\ wpos' = Len(file')
            /\ Len(file') >= Len(file)
            /\ \A p \in 1..Len(file) :
                  (p <= offset_positions[widx] \/ p > offset_positions[widx] + 8)
                      => file'[p] = file[p]
      ]_vars

\* C4 witness: two tensors were written, the first with a payload.
C4_Witness ==
    /\ WriterDone
    /\ Len(tensors) = 2
    /\ Len(tensors[1].values) > 0
    /\ Len(data_offsets) = 2

\* C10: a file of at least four bytes that does not start with GGUF is
\* rejected with the bad-magic error after the four magic bytes, before any
\* count, metadata entry or tensor header is read, with nothing returned.
C10_BadMagic ==
    (pc = "written" /\ rstatus # "start"
        /\ Len(file) >= 4 /\ Bytes(file, 0, 4) # Magic) =>
        /\ rstatus = "BadMagic"
        /\ rpos = 4
        /\ DOMAIN rmeta = {}
        /\ tensor_headers = <<>>
        /\ rtensors = <<>>

\* C10 witness: a file with a wrong magic was rejected.
C10_Witness == rstatus = "BadMagic" /\ Bytes(file, 0, 4) # Magic

-----------------------------------------------------------------------------
(* Properties of the block codecs (SpecQuant) *)

CeilDiv(a, b) == (a + b - 1) \div b

Encoded == dst # "input"

DecodeOver == dst \in {"Ok", "InvalidScale", "UnexpectedEOF"}

DecodedAll ==
    /\ dst = "Ok"
    /\ Len(decoded) = Len(qin)
    /\ dblocks = BlockStarts(qin, qfmt, 0)

\* Some block of the input has max - min = +inf in f32 arithmetic.
InfiniteRange ==
    \E i \in 1..Len(Chunks(qin, BLOCK_SIZE)) :
        ChunkRange(Chunks(qin, BLOCK_SIZE)[i]) = PosInf

\* C7 as stated: for every float sequence, decoding the encoder's output with
\* dims = [N] succeeds with exactly N values, block boundaries coinciding.
C7_RoundTrip_Stated == DecodeOver => DecodedAll

\* C7, amended: for every float sequence in which no block of 32 has an
\* infinite max - min, decoding the encoder's output with dims = [N] succeeds
\* with exactly N values and the decoder's blocks start where the encoder's do.
C7_RoundTrip == (DecodeOver /\ ~InfiniteRange) => DecodedAll

C7_Witness ==
    /\ DecodedAll
    /\ qfmt = "Q5_1"
    /\ Len(qin) = 33
    /\ dblocks = <<0, 28>>

-----------------------------------------------------------------------------
(* Properties of the F32 decoder and the validator (SpecValidate) *)

\* The floats are the first n little-endian 4-byte groups of the payload.
FirstGroups(floats, bytes, n) ==
    /\ Len(floats) = n
    /\ \A k \in 1..Len(floats) :
          Avail(bytes, 4 * (k - 1), 4) /\ floats[k] = Bytes(bytes, 4 * (k - 1), 4)

\* C8: whenever try_decode_f32 succeeds it returns exactly N = product(dims)
\* floats, the first N 4-byte groups of the payload; bytes beyond 4N do not
\* appear in the result.
C8_F32Exact ==
    \A i \in 1..Len(vlog) :
        (NumLE(vin.tensors[i].type_id) = 0 /\ vlog[i].out = "Ok") =>
            FirstGroups(vlog[i].floats, vin.tensors[i].values,
                        Product(vin.tensors[i].dims))

\* Tensor i was validated: it decoded and yielded exactly N floats.
DecodesCleanly(i) ==
    /\ i <= Len(vlog)
    /\ vlog[i].out = "Ok"
    /\ Len(vlog[i].floats) = Product(vin.tensors[i].dims)

\* C9: the validator exits 0 iff every tensor of type 0, 100 or 101 decodes
\* successfully and yields exactly N floats; other tensors are skipped.
C9_ExitStatus ==
    (vpc = "done" /\ vin.out = "Ok") =>
        /\ vexit = 0 <=>
              \A i \in 1..Len(vin.tensors) :
                  NumLE(vin.tensors[i].type_id) \in {0, 100, 101} => DecodesCleanly(i)
        /\ \A i \in 1..Len(vlog) :
              NumLE(vin.tensors[i].type_id) \notin {0, 100, 101} =>
                  vlog[i].out = "skipped"

-----------------------------------------------------------------------------
(* Properties of the quantizer (SpecQuantizer) *)

\* Output tensor i is input tensor i re-encoded: same name and dims, the type
\* code of the format, the format's encoder applied to the input's floats.
Requantized(i) ==
    /\ quantized[i].name = zin.tensors[i].name
    /\ quantized[i].dims = zin.tensors[i].dims
    /\ F32Payload(FloatsOf(zin.tensors[i].values))
          = SubSeq(zin.tensors[i].values, 1, 4 * (Len(zin.tensors[i].values) \div 4))
    /\ ParseFormat(zformat) = "Q4_0" =>
          /\ NumLE(quantized[i].type_id) = 100
          /\ quantized[i].values = quantize_tensor_q4_0(FloatsOf(zin.tensors[i].values))
    /\ ParseFormat(zformat) = "Q5_1" =>
          /\ NumLE(quantized[i].type_id) = 101
          /\ quantized[i].values = quantize_tensor_q5_1(FloatsOf(zin.tensors[i].values))

\* C11: the quantizer outputs one tensor per input tensor, in the same order,
\* with the same name and dims, type code 100 for Q4_0 and 101 for Q5_1, and
\* the payload of the selected encoder on the input's floats; the input
\* records are not modified. The output is the list main hands to
\* write_gguf_file.
C11_QuantizerFrame ==
    /\ [](/\ Len(quantized) <= Len(zin.tensors)
          /\ \A i \in 1..Len(quantized) : Requantized(i)
          /\ (zpc \in {"writing", "done"} /\ zexit \in {-1, 0}) =>
                /\ Len(quantized) = Len(zin.tensors)
                /\ tensors = quantized)
    /\ [][ /\ zin' = zin
           /\ SubSeq(quantized', 1, Len(quantized)) = quantized ]_vars

C11_Witness ==
    /\ zpc = "done"
    /\ zexit = 0
    /\ ParseFormat(zformat) = "Q5_1"
    /\ Len(tensors) = 2
    /\ tensors[1].name # tensors[2].name
    /\ NumLE(tensors[1].type_id) = 101

\* C12: the metadata the quantizer writes is the metadata it read with
\* quantized = true and quantization_format = <format name> set and no other
\* key added, removed or changed (no precision key the input did not have).
C12_Metadata ==
    zpc \in {"writing", "done"} /\ zexit \in {-1, 0} =>
        metadata = Insert(Insert(zin.metadata, Str_quantized, Val("Bool", TRUE)),
                          Str_quantization_format,
                          Val("String", FormatName(ParseFormat(zformat))))

-----------------------------------------------------------------------------
(* Emission order of the writer (Spec) *)

\* The writer's phases in the order of the code.
Rank(p) ==
    CASE p = "w_uncalled" -> 0
      [] p = "w_start" -> 1
      [] p = "w_meta" -> 2
      [] p = "w_theaders" -> 3
      [] p = "w_data" -> 4
      [] p = "written" -> 5

\* f2 is f with bytes appended.
Extends(f2, f) == Len(f2) >= Len(f) /\ SubSeq(f2, 1, Len(f)) = f

\* Every position of seq a is before every position of seq b.
AllBefore(a, b) == \A i \in 1..Len(a) : \A j \in 1..Len(b) : a[i] < b[j]

\* C13: write_gguf_file emits the header, then all metadata entries, then
\* all tensor headers, then the payloads in declared tensor order: no tensor
\* header is emitted after the first payload byte and payload i is emitted
\* before payload i+1. Emitting is appending to the file; the backpatch of a
\* data_offset field rewrites eight bytes of a header emitted before.
C13_EmissionOrder ==
    [][ pc # pc' \/ file # file' =>
        /\ Rank(pc') >= Rank(pc)
        /\ AllBefore(kind_positions', offset_positions')
        /\ AllBefore(offset_positions', data_offsets')
        /\ pc \in {"w_start", "w_meta", "w_theaders"} =>
              /\ Extends(file', file)
              /\ wpos = Len(file)
              /\ data_offsets' = <<>>
        /\ pc \in {"w_start", "w_meta"} => offset_positions = <<>>
        /\ pc = "w_meta" => Len(kind_positions') = Len(kind_positions) + 1
        /\ pc = "w_theaders" =>
              /\ kind_positions' = kind_positions
              /\ Len(kind_positions) = Cardinality(DOMAIN metadata)
              /\ Len(offset_positions') = Len(offset_positions) + 1
        /\ pc = "w_data" =>
              /\ kind_positions' = kind_positions
              /\ offset_positions' = offset_positions
              /\ Len(offset_positions) = Len(tensors)
              /\ data_offsets' = Append(data_offsets, Len(file))
              /\ Len(data_offsets') = widx
              /\ Bytes(file', Len(file), Len(file') - Len(file))
                    = PayloadBytes(tensors[widx])
        /\ pc' = "written" =>
              /\ Len(kind_positions') = Cardinality(DOMAIN metadata)
              /\ Len(data_offsets') = Len(tensors)
      ]_vars

\* C13 witness: two metadata entries, two headers and two payloads, the
\* second payload after a non-empty first one.
C13_Witness ==
    /\ pc = "written"
    /\ Len(kind_positions) = 2
    /\ Len(offset_positions) = 2
    /\ Len(data_offsets) = 2
    /\ data_offsets[1] < data_offsets[2]
    /\ AllBefore(offset_positions, data_offsets)

-----------------------------------------------------------------------------
(* Unsupported metadata kinds in the reader (Spec) *)

\* C14: when read_gguf_file meets a metadata entry of kind Array or of an
\* unrecognized kind it halts metadata parsing there and keeps the entries
\* parsed before: no further iteration of the metadata loop interprets the
\* bytes after the kind byte, and the file is not failed by that entry.
C14_HaltAtUnknownKind ==
    [][ (rstatus = "meta" /\ rdiag # <<>>) =>
            /\ rpos' = rpos
            /\ rmeta' = rmeta
            /\ rdiag' = rdiag
            /\ rstatus' \notin {"Err", "Panic"}
      ]_vars

-----------------------------------------------------------------------------
(* Scale validation of the block decoders (SpecValidate) *)

\* Bytes from the start of one full block to the next: 8 + 16 or 8 + 20.
BlockStride(type_id) == IF type_id = 100 THEN 24 ELSE 28

\* expected_len as the decoder computes it, 2^24 standing for any count
\* beyond what a payload of the model holds.
ElementCount(dims) ==
    IF FitsInt(ExpectedLen(dims).num) THEN NumLE(ExpectedLen(dims).num) ELSE Pow2(24)

\* The scale field at cur is zero or not finite.
ScaleRejected(bytes, cur) ==
    \/ ~IsFiniteBits(Bytes(bytes, cur, 4))
    \/ IsZeroBits(Bytes(bytes, cur, 4))

\* Some block that starts before N elements are produced, and has its eight
\* header bytes in the payload, carries a rejected scale.
BadBlockBeforeN(t) ==
    \E j \in 0..(Len(t.values) \div BlockStride(NumLE(t.type_id))) :
        /\ BLOCK_SIZE * j < ElementCount(t.dims)
        /\ j * BlockStride(NumLE(t.type_id)) + 8 <= Len(t.values)
        /\ ScaleRejected(t.values, j * BlockStride(NumLE(t.type_id)))

\* C15: try_decode_q4_0 and try_decode_q5_1 return InvalidScale exactly when
\* a block read before N elements are produced has a zero or non-finite
\* scale, and then return no value; a block after the N-th element is not
\* read and causes no error.
C15_InvalidScale ==
    \A i \in 1..Len(vlog) :
        NumLE(vin.tensors[i].type_id) \in {100, 101} =>
            /\ vlog[i].out = "InvalidScale" <=> BadBlockBeforeN(vin.tensors[i])
            /\ vlog[i].out = "InvalidScale" => vlog[i].floats = <<>>

\* C15 witness: a payload whose first block is valid and whose second block
\* has a rejected scale was refused, with more than 32 elements expected.
C15_Witness ==
    /\ Len(vlog) = 1
    /\ NumLE(vin.tensors[1].type_id) \in {100, 101}
    /\ Len(vin.tensors[1].values) > BlockStride(NumLE(vin.tensors[1].type_id))
    /\ ~ScaleRejected(vin.tensors[1].values, 0)
    /\ ScaleRejected(vin.tensors[1].values, BlockStride(NumLE(vin.tensors[1].type_id)))
    /\ ElementCount(vin.tensors[1].dims) = BLOCK_SIZE + 1
    /\ vlog[1].out = "InvalidScale"

-----------------------------------------------------------------------------
(* Length tests of the F32 decoder (SpecDecode) *)

\* The payload is shorter than 4 * N bytes, N the product of the dims as a
\* number: a product beyond 2^24 exceeds every payload of the model.
ShorterThan4N(t) ==
    \/ ExpectedLen(t.dims).overflow
    \/ ~FitsInt(ExpectedLen(t.dims).num)
    \/ Len(t.values) < 4 * NumLE(ExpectedLen(t.dims).num)

\* The outcome the stated tests give: the length test modulo 4 first, then
\* the test against 4 * N, success otherwise.
F32Stated(t) ==
    IF Len(t.values) % 4 # 0 THEN "InvalidBlock"
    ELSE IF ShorterThan4N(t) THEN "UnexpectedEOF"
    ELSE "Ok"

\* The validator is past tensor i: it was decoded, or the process died in it.
Handled(i) == i < vidx \/ (i = vidx /\ vpc = "done")

\* C16: try_decode_f32 returns InvalidBlock exactly when the payload length
\* is not a multiple of 4, UnexpectedEOF exactly when it is a multiple of 4
\* but smaller than 4 * N, and succeeds in every other case.
C16_F32Outcomes ==
    \A i \in 1..Len(vin.tensors) :
        (NumLE(vin.tensors[i].type_id) = 0 /\ Handled(i)) =>
            /\ i <= Len(vlog)
            /\ vlog[i].out = F32Stated(vin.tensors[i])

-----------------------------------------------------------------------------
(* Per-tensor failures in the validator (SpecValidate) *)

\* The tensors of the file whose logged decode failed.
FailedTensors == { i \in 1..Len(vlog) : vlog[i].out \notin {"Ok", "skipped"} }

\* C18: the validator decodes and reports every tensor in file order; a
\* failed decode never keeps a later tensor from being decoded and reported,
\* and the failure count at the end is the number of failed tensors.
C18_EveryTensorReported ==
    /\ Len(vlog) <= Len(vin.tensors)
    /\ \A i \in 1..Len(vlog) : vlog[i] \in ValidateOne(vin.tensors[i], overflow_checks)
    /\ errors = Cardinality(FailedTensors)
    /\ (vpc = "done" /\ vin.out = "Ok") => Len(vlog) = Len(vin.tensors)

-----------------------------------------------------------------------------
(* Constant blocks (SpecQuant) *)

\* First and last element of block j of the input.
BlockFirst(j) == BLOCK_SIZE * (j - 1) + 1
BlockLast(j) == Min(BLOCK_SIZE * j, Len(qin))

\* Block j of the input consists of one finite value.
ConstantBlock(j) ==
    /\ qin[BlockFirst(j)].c = "fin"
    /\ \A i \in BlockFirst(j)..BlockLast(j) : qin[i] = qin[BlockFirst(j)]

\* Where block j starts in the encoder's output, and the bytes of its levels.
BlockOffset(j) == (j - 1) * (IF qfmt = "Q4_0" THEN 24 ELSE 28)
BlockPacked(j) ==
    IF j = CeilDiv(Len(qin), BLOCK_SIZE)
    THEN Bytes(qout, BlockOffset(j) + 8, Len(qout) - (BlockOffset(j) + 8))
    ELSE Bytes(qout, BlockOffset(j) + 8, IF qfmt = "Q4_0" THEN 16 ELSE 20)

\* The f32 quotients 1e-6 / 15 = 0x338F2A63 and 1e-6 / 31 = 0x330A8C1E.
FloorScale == IF qfmt = "Q4_0" THEN <<99, 42, 143, 51>> ELSE <<30, 140, 10, 51>>

\* C19: for a block whose elements all equal a finite c, the encoder emits
\* the scale 1e-6/15 (Q4_0) or 1e-6/31 (Q5_1), zero = c and level 0 for every
\* element; the decoder does not refuse the block and returns
\* scale * 0 + c = c for each of its elements.
C19_ConstantBlock ==
    Encoded =>
        \A j \in 1..CeilDiv(Len(qin), BLOCK_SIZE) :
            ConstantBlock(j) =>
                /\ Bytes(qout, BlockOffset(j), 4) = FloorScale
                /\ IsFiniteBits(FloorScale) /\ ~IsZeroBits(FloorScale)
                /\ Bytes(qout, BlockOffset(j) + 4, 4) = F32OfInt(qin[BlockFirst(j)].n)
                /\ \A k \in 1..Len(BlockPacked(j)) : BlockPacked(j)[k] = 0
                /\ ~(/\ dst = "InvalidScale"
                     /\ dblocks # <<>>
                     /\ dblocks[Len(dblocks)] = BlockOffset(j))
                /\ (\E k \in 1..Len(dblocks) : dblocks[k] = BlockOffset(j))
                     => Len(decoded) >= BlockLast(j)
                /\ \A i \in BlockFirst(j)..BlockLast(j) :
                      i <= Len(decoded) =>
                          decoded[i] = DVal(FloorScale, 0, F32OfInt(qin[i].n))

\* C19 witness: a two-block input whose second block is constant (and whose
\* first is not) was decoded to the end.
C19_Witness ==
    /\ dst = "Ok"
    /\ Len(qin) = 2 * BLOCK_SIZE
    /\ ~ConstantBlock(1)
    /\ ConstantBlock(2)
    /\ Len(decoded) = Len(qin)
    /\ qin[Len(qin)] = Fin(3)

-----------------------------------------------------------------------------
(* Bit packing (SpecPack) *)

\* C17: for every block of k <= 32 levels and both codecs, the levels the
\* decoder unpacks from the encoder's packed bytes are, in positions 1..k and
\* in order, the levels the encoder packed; the Q5_1 decoder emits at most 32
\* levels for a block.
C17_PackRoundTrip ==
    ppc = "unpacked" =>
        /\ Len(punpacked) >= Len(plevels)
        /\ SubSeq(punpacked, 1, Len(plevels)) = plevels
        /\ pfmt = "Q5_1" => Len(punpacked) <= BLOCK_SIZE

\* C17 witness: a full Q5_1 block whose last level is 31 was unpacked, and a
\* Q4_0 block of an odd number of levels likewise.
C17_Witness ==
    /\ ppc = "unpacked"
    /\ \/ /\ pfmt = "Q5_1"
          /\ Len(plevels) = BLOCK_SIZE
          /\ plevels[BLOCK_SIZE] = 31
          /\ plevels[1] = 10
          /\ Len(ppacked) = 20
       \/ /\ pfmt = "Q4_0"
          /\ Len(plevels) = 31
          /\ plevels[31] = 15
          /\ plevels[1] = 5

-----------------------------------------------------------------------------
(* Safetensors ingest (SpecIngest) *)

IsFloatDtype(tv) == tv.dtype \in {"F32", "F16", "BF16"}

\* The source tensors of a float dtype among those the loop has passed.
FloatSources == SelectSeq(SubSeq(sfile.tensors, 1, sidx - 1), IsFloatDtype)

RECURSIVE Elements(_)
\* The number of elements of a shape.
Elements(shape) == IF shape = <<>> THEN 1 ELSE Head(shape) * Elements(Tail(shape))

\* C20: the ingest emits every F32, F16 or BF16 source tensor with type code
\* 0 and 4 payload bytes per source element; F32 bytes are copied unchanged
\* and each BF16 group [lo, hi] becomes [0, 0, lo, hi]; tensors of another
\* dtype are absent from the output.
C20_Ingest ==
    /\ Len(sout) = Len(FloatSources)
    /\ \A i \in 1..Len(sout) :
          /\ sout[i].name = FloatSources[i].name
          /\ sout[i].type_id = LE(0, 4)
          /\ Len(sout[i].values) = 4 * Elements(FloatSources[i].shape)
          /\ FloatSources[i].dtype = "F32" => sout[i].values = FloatSources[i].data
          /\ FloatSources[i].dtype = "BF16" =>
                \A k \in 1..Elements(FloatSources[i].shape) :
                    Bytes(sout[i].values, 4 * (k - 1), 4)
                        = <<0, 0, FloatSources[i].data[2 * k - 1],
                            FloatSources[i].data[2 * k]>>

\* C20 witness: a file with a BF16 tensor and a tensor of an unsupported
\* dtype was ingested, and only the BF16 tensor was emitted.
C20_Witness ==
    /\ spc = "returned"
    /\ Len(sfile.tensors) = 2
    /\ sfile.tensors[1].dtype = "I64"
    /\ sfile.tensors[2].dtype = "BF16"
    /\ Len(sout) = 1
    /\ sout[1].values = <<0, 0, 128, 63, 0, 0, 52, 18>>

-----------------------------------------------------------------------------
(* Termination of the block decoders (SpecDecode) *)

\* C21: try_decode_q4_0 and try_decode_q5_1 terminate on every payload and
\* every dims with a result: Ok with the N elements of the dims, or an error;
\* a payload that cannot supply N elements ends in UnexpectedEOF (or in
\* InvalidScale at a block read before), never in a call that does not return.
C21_DecoderReturns ==
    \A i \in 1..Len(vin.tensors) :
        (NumLE(vin.tensors[i].type_id) \in {100, 101} /\ Handled(i)) =>
            /\ i <= Len(vlog)
            /\ vlog[i].out \in {"Ok", "InvalidScale", "UnexpectedEOF"}
            /\ vlog[i].out = "Ok" =>
                  Len(vlog[i].floats) = Product(vin.tensors[i].dims)

-----------------------------------------------------------------------------
(* Payload sizes in the reader (SpecReadDir) *)

\* The end of tensor i's payload: the next tensor's data_offset, or the
\* length of the file.
PayloadEnd(i) ==
    IF i + 1 <= Len(tensor_headers) THEN tensor_headers[i + 1][4] ELSE LE(Len(file), 8)

\* end - offset of tensor i is negative.
Underflows(i) == NumLess(PayloadEnd(i), tensor_headers[i][4])

\* C22: for a tensor whose data_offset is greater than the next tensor's
\* data_offset or than the file size, read_gguf_file returns an error: it
\* does not panic, and it returns no payload of a wrapped-around length.
C22_NoUnderflow ==
    [][ (rstatus = "blobs" /\ Underflows(ridx + 1)) => rstatus' = "Err" ]_vars

====
